---- MODULE Spec2Model ----
(***************************************************************************)
(* Streaming spectral-transport engines of audio_transport:                *)
(*   RealtimeAudioTransport         (CDF engine)                           *)
(*   RealtimeReassignmentTransport  (reassignment engine)                  *)
(*                                                                         *)
(* Arithmetic.  The C++ works on IEEE doubles.  Here every real is a       *)
(* fixed-point integer; each operation is the operation of the source      *)
(* carried out at that resolution:                                         *)
(*   - samples are integers (one unit = one amplitude step);               *)
(*   - cos/sin are evaluated by CosS (a rational approximation, rounded);  *)
(*   - angles (std::arg, phases) are integers, 16 units to the turn;       *)
(*   - the blend factor k is given in halves (K2 = 2k);                    *)
(*   - products keep their scale factors, so no rounding happens where     *)
(*     the source multiplies or adds.                                      *)
(* eps = 1e-10 of the source lies below one unit: "x > eps" is "x > 0".    *)
(***************************************************************************)
EXTENDS Integers, Sequences, FiniteSets, TLC

\* ------------------------------------------------------------------ bounds
\* total number of samples fed to an engine in one behaviour
MaxSamples == 4
\* largest buffer_size of one process() call
MaxBlock == 4
\* largest magnitude of a bin in the checks of the pure spectrum functions
MaxMag == 2
\* total number of samples the host hands to the plugin in one behaviour
MaxPluginSamples == 2
\* largest number of samples of one processBlock() call
MaxPluginBlock == 2

\* ------------------------------------------------------- numeric kernel
RoundDiv(a, b) == (2 * a + b) \div (2 * b)

Max(a, b) == IF a >= b THEN a ELSE b
Min(a, b) == IF a <= b THEN a ELSE b

\* a function as an explicit array: its elements are computed once, not at
\* every application
Array(f) == IF f = <<>> THEN f ELSE f

\* sum of f[i] for i in lo..hi, f a function on integers
RECURSIVE SumFn(_, _, _)
SumFn(f, lo, hi) == IF lo > hi THEN 0 ELSE f[lo] + SumFn(f, lo + 1, hi)

\* s*cos(2*pi*n/d) for |n/d| <= 1/4, rounded
CosQuarter(s, n, d) == RoundDiv(s * (d * d - 16 * n * n), d * d + 4 * n * n)

\* std::cos: s*cos(2*pi*num/den), rounded, den > 0
CosS(s, num, den) ==
    LET r == num % den
    IN  IF 4 * r <= den THEN CosQuarter(s, r, den)
        ELSE IF 4 * r < 3 * den THEN -CosQuarter(s, 2 * r - den, 2 * den)
        ELSE CosQuarter(s, r - den, den)

\* std::sin: s*sin(2*pi*num/den), rounded
SinS(s, num, den) == CosS(s, 4 * num - den, 4 * den)

\* 4*cos and 4*sin of the 16 angle units
Cos16 == Array([m \in 0..15 |-> CosS(4, m, 16)])
Sin16 == Array([m \in 0..15 |-> SinS(4, m, 16)])

\* std::sqrt on a non-negative integer, rounded down
RECURSIVE ISqrt(_)
ISqrt(x) ==
    IF x < 2 THEN x
    ELSE LET s == 2 * ISqrt(x \div 4)
         IN  IF (s + 1) * (s + 1) <= x THEN s + 1 ELSE s

\* std::abs of a complex value <<re, im>>
CAbs(z) == ISqrt(z[1] * z[1] + z[2] * z[2])

\* 64*cos and 64*sin of the 16 angle units, for the direction search of CArg
ArgCos == Array([m \in 0..15 |-> CosS(64, m, 16)])
ArgSin == Array([m \in 0..15 |-> SinS(64, m, 16)])

Abs(a) == IF a < 0 THEN -a ELSE a

\* std::arg of a complex value: the nearest of the 16 directions, in -7..8
\* (the range (-pi, pi] of atan2); arg(0) = 0
CArg(z) ==
    IF z[1] = 0 /\ z[2] = 0 THEN 0
    ELSE LET dot(a) == z[1] * ArgCos[a % 16] + z[2] * ArgSin[a % 16]
             cands == {a \in -7..8 : \A b \in -7..8 : dot(a) >= dot(b)}
         IN  CHOOSE a \in cands :
                 \A b \in cands : Abs(a) < Abs(b) \/ (Abs(a) = Abs(b) /\ a >= b)

\* std::polar(mag, phase): <<4*mag*cos, 4*mag*sin>>, phase in angle units
CPolar(mag, phase) == <<mag * Cos16[phase % 16], mag * Sin16[phase % 16]>>

\* 4*cos and 4*sin of the `size` twiddle angles of a transform of that length
\* (for a size that divides 16 these are the entries of Cos16 and Sin16)
CosTable(size) == Array([m \in 0..size - 1 |-> CosS(4, m, size)])
SinTable(size) == Array([m \in 0..size - 1 |-> SinS(4, m, size)])

\* the two sums of one bin of a forward transform
Bin(x, size, j, cos, sin) ==
    << SumFn([n \in 0..size - 1 |-> x[n] * cos[(j * n) % size]], 0, size - 1),
       -SumFn([n \in 0..size - 1 |-> x[n] * sin[(j * n) % size]], 0, size - 1) >>

\* fftw r2c of `size` reals x (a function on 0..size-1): bins 0..size/2,
\* each <<4*re, 4*im>>; size is even
FFTr2cWith(x, size, cos, sin) ==
    Array([j \in 0..(size \div 2) |-> Bin(x, size, j, cos, sin)])

FFTr2c(x, size) == FFTr2cWith(x, size, CosTable(size), SinTable(size))

\* fftw c2r (unnormalised) of bins X (0..size/2) into `size` reals, times 4
FFTc2rWith(X, size, cos, sin) ==
    Array([n \in 0..size - 1 |->
        4 * X[0][1]
        + (IF n % 2 = 0 THEN 4 ELSE -4) * X[size \div 2][1]
        + 2 * SumFn([j \in 1..size \div 2 - 1 |->
                        X[j][1] * cos[(j * n) % size] - X[j][2] * sin[(j * n) % size]],
                    1, size \div 2 - 1)])

FFTc2r(X, size) == FFTc2rWith(X, size, CosTable(size), SinTable(size))

\* ---------------------------------------------- RealtimeAudioTransport
Zeros(n) == Array([i \in 0..n - 1 |-> 0])

\* pow(2, ceil(log2(w))); log2(0) is -inf and pow(2, -inf) is 0
RECURSIVE NextPow2From(_, _)
NextPow2From(p, w) == IF p >= w THEN p ELSE NextPow2From(2 * p, w)
NextPow2(w) == IF w = 0 THEN 0 ELSE NextPow2From(1, w)

\* window_[i] = 0.5 * (1 - cos(2 pi i / (window_size - 1))), in quarters
HannWindow(window_size) ==
    Array([i \in 0..window_size - 1 |-> 2 - CosS(2, i, window_size - 1)])

\* the sizes the constructor derives from its arguments
CdfSizes(sample_rate, window_ms, hop_divisor, fft_mult) ==
    LET window_size == (window_ms * sample_rate) \div 1000
        fft_size    == NextPow2(window_size) * fft_mult
    IN  [ window_size_ |-> window_size,
          hop_size_    |-> window_size \div hop_divisor,
          fft_size_    |-> fft_size,
          num_bins_    |-> fft_size \div 2 + 1 ]

\* a latency taken from the padded FFT length instead of the window
CdfLatencyFromFft(e) == e.fft_size_ \div 2

\* int getLatencySamples() const { return window_size_ / 2; }
CdfGetLatencySamples(e) == e.window_size_ \div 2

\* the engine with the given sizes, all buffers and cursors zero
CdfWithSizes(sample_rate, z) ==
    [ sample_rate_       |-> sample_rate,
      window_size_       |-> z.window_size_,
      hop_size_          |-> z.hop_size_,
      fft_size_          |-> z.fft_size_,
      num_bins_          |-> z.num_bins_,
      main_buffer_       |-> Zeros(z.window_size_),
      sidechain_buffer_  |-> Zeros(z.window_size_),
      output_buffer_     |-> Zeros(z.window_size_),
      buffer_write_pos_  |-> 0,
      buffer_read_pos_   |-> 0,
      samples_in_buffer_ |-> 0,
      window_            |-> HannWindow(z.window_size_),
      phases_            |-> Zeros(z.num_bins_),
      ola_buffer_        |-> Zeros(2 * z.window_size_),
      ola_write_pos_     |-> 0 ]

\* RealtimeAudioTransport(sample_rate, window_ms, hop_divisor, fft_mult)
CdfNew(sample_rate, window_ms, hop_divisor, fft_mult) ==
    CdfWithSizes(sample_rate, CdfSizes(sample_rate, window_ms, hop_divisor, fft_mult))

\* a reset that leaves the read cursor of the input ring where it was
CdfResetKeepsCursor(e) ==
    [e EXCEPT !.main_buffer_       = Zeros(e.window_size_),
              !.sidechain_buffer_  = Zeros(e.window_size_),
              !.output_buffer_     = Zeros(e.window_size_),
              !.ola_buffer_        = Zeros(2 * e.window_size_),
              !.phases_            = Zeros(e.num_bins_),
              !.buffer_write_pos_  = 0,
              !.samples_in_buffer_ = 0,
              !.ola_write_pos_     = 0]

\* a reset that leaves the overlap-add accumulator untouched
CdfResetKeepsOla(e) ==
    [e EXCEPT !.main_buffer_       = Zeros(e.window_size_),
              !.sidechain_buffer_  = Zeros(e.window_size_),
              !.output_buffer_     = Zeros(e.window_size_),
              !.phases_            = Zeros(e.num_bins_),
              !.buffer_write_pos_  = 0,
              !.buffer_read_pos_   = 0,
              !.samples_in_buffer_ = 0]

\* void reset()
CdfReset(e) ==
    [e EXCEPT !.main_buffer_       = Zeros(e.window_size_),
              !.sidechain_buffer_  = Zeros(e.window_size_),
              !.output_buffer_     = Zeros(e.window_size_),
              !.ola_buffer_        = Zeros(2 * e.window_size_),
              !.phases_            = Zeros(e.num_bins_),
              !.buffer_write_pos_  = 0,
              !.buffer_read_pos_   = 0,
              !.samples_in_buffer_ = 0,
              !.ola_write_pos_     = 0]

\* std::vector::resize(n, 0): keep the first n elements, pad with zeros
Resize(v, old, n) == Array([i \in 0..n - 1 |-> IF i < old THEN v[i] ELSE 0])

\* void setSampleRate(double sample_rate).  window_ms is computed from the
\* rate that line 103 has already overwritten, so the window comes out with
\* the sample count it had; hop and FFT size use the literals 4 and 2.
CdfSetSampleRate(e, sample_rate) ==
    IF sample_rate = e.sample_rate_ THEN e
    ELSE LET window_size == (e.window_size_ * 1000 * sample_rate) \div (sample_rate * 1000)
             fft_size    == NextPow2(window_size) * 2
             num_bins    == fft_size \div 2 + 1
             resized ==
                 [e EXCEPT !.sample_rate_      = sample_rate,
                           !.window_size_      = window_size,
                           !.hop_size_         = window_size \div 4,
                           !.fft_size_         = fft_size,
                           !.num_bins_         = num_bins,
                           !.main_buffer_      = Resize(e.main_buffer_, e.window_size_, window_size),
                           !.sidechain_buffer_ = Resize(e.sidechain_buffer_, e.window_size_, window_size),
                           !.output_buffer_    = Resize(e.output_buffer_, e.window_size_, window_size),
                           !.phases_           = Resize(e.phases_, e.num_bins_, num_bins),
                           !.ola_buffer_       = Resize(e.ola_buffer_, 2 * e.window_size_, 2 * window_size),
                           !.window_           = HannWindow(window_size)]
         IN  CdfReset(resized)

\* computeSTFT: window, zero-pad, forward FFT.  Bins are <<re, im>>, 16 units
\* to one amplitude step.
computeSTFT(e, input_buffer) ==
    LET padding_offset == (e.fft_size_ - e.window_size_) \div 2
        fft_input ==
            Array([n \in 0..e.fft_size_ - 1 |->
                IF n >= padding_offset /\ n < padding_offset + e.window_size_
                THEN input_buffer[n - padding_offset] * e.window_[n - padding_offset]
                ELSE 0])
    IN  FFTr2c(fft_input, e.fft_size_)

\* computeISTFT: inverse FFT, window again, norm = 1 / fft_size
computeISTFT(e, spectrum) ==
    LET padding_offset == (e.fft_size_ - e.window_size_) \div 2
        ifft_output    == FFTc2r(spectrum, e.fft_size_)
    IN  Array([i \in 0..e.window_size_ - 1 |->
            RoundDiv(ifft_output[padding_offset + i] * e.window_[i], e.fft_size_)])

\* running sums: CumSum(v, i) = v[0] + ... + v[i]
CumSum(v, i) == SumFn(v, 0, i)

\* the binary search of computeTransportMap for one source bin: the smallest
\* mid with cdf_Y[mid] >= cdf_X[i] - eps.  The CDFs are cum / max(sum, eps);
\* a sum of 0 has all its numerators 0, so any positive divisor gives the
\* same quotients.
RECURSIVE TransportSearch(_, _, _, _, _, _, _)
\* a search that stops at the first probe that satisfies the test
TransportSearchFirstHit(mag_Y, sum_Y, cdfx_num, sum_X, left, right, result) ==
    IF left > right THEN result
    ELSE IF CumSum(mag_Y, (left + right) \div 2) * sum_X >= cdfx_num * sum_Y
         THEN (left + right) \div 2
         ELSE TransportSearch(mag_Y, sum_Y, cdfx_num, sum_X,
                              (left + right) \div 2 + 1, right, result)

TransportSearch(mag_Y, sum_Y, cdfx_num, sum_X, left, right, result) ==
    IF left > right THEN result
    ELSE LET mid == (left + right) \div 2
         IN  IF CumSum(mag_Y, mid) * sum_X >= cdfx_num * sum_Y
             THEN TransportSearch(mag_Y, sum_Y, cdfx_num, sum_X, left, mid - 1, mid)
             ELSE TransportSearch(mag_Y, sum_Y, cdfx_num, sum_X, mid + 1, right, result)

\* computeTransportMap(mag_X, mag_Y, transport_map)
computeTransportMap(mag_X, mag_Y, num_bins) ==
    LET sum_X == Max(SumFn(mag_X, 0, num_bins - 1), 1)
        sum_Y == Max(SumFn(mag_Y, 0, num_bins - 1), 1)
    IN  Array([i \in 0..num_bins - 1 |->
            TransportSearch(mag_Y, sum_Y, CumSum(mag_X, i), sum_X,
                            0, num_bins - 1, num_bins - 1)])

\* a blend that ignores k
InterpMagMean(mag_X, mag_Y, K2, i, target_idx) == mag_X[i] + mag_Y[target_idx]

\* double interp_mag = (1.0 - k) * mag_X[i] + k * mag_Y[target_idx], doubled
InterpMag(mag_X, mag_Y, K2, i, target_idx) ==
    (2 - K2) * mag_X[i] + K2 * mag_Y[target_idx]

\* the accumulation and phase loops of interpolateSpectrum, given the
\* transport map
Accumulate(mag_X, phase_X, mag_Y, phase_Y, K2, num_bins, transport_map) ==
    LET \* 2 * interp_positions[i]
        pos2(i)       == (2 - K2) * i + K2 * transport_map[i]
        \* 2 * interp_mag
        interp_mag(i) == InterpMag(mag_X, mag_Y, K2, i, transport_map[i])
        floor_bin(i)  == pos2(i) \div 2
        ceil_bin(i)   == -((-pos2(i)) \div 2)
        \* 2 * frac
        frac2(i)      == pos2(i) - 2 * floor_bin(i)
        low_bin(i)    == Max(0, Min(floor_bin(i), num_bins - 1))
        high_bin(i)   == Max(0, Min(ceil_bin(i), num_bins - 1))
        \* what source bin i adds to output bin b
        weight(i, b)  ==
            (IF low_bin(i) = b THEN (2 - frac2(i)) * interp_mag(i) ELSE 0)
            + (IF high_bin(i) = b /\ high_bin(i) # low_bin(i)
               THEN frac2(i) * interp_mag(i) ELSE 0)
        mag_out    == Array([b \in 0..num_bins - 1 |->
                          SumFn([i \in 0..num_bins - 1 |-> weight(i, b)], 0, num_bins - 1)])
        phase_num  == Array([b \in 0..num_bins - 1 |->
                          SumFn([i \in 0..num_bins - 1 |-> weight(i, b) * phase_X[i]],
                                0, num_bins - 1)])
        \* weight_sum = eps + the same sum as mag_out
        phase_out  == Array([b \in 0..num_bins - 1 |->
                          IF mag_out[b] > 0 THEN RoundDiv(phase_num[b], mag_out[b])
                          ELSE phase_Y[b]])
    IN  [mag_out |-> mag_out, phase_out |-> phase_out]

\* interpolateSpectrum(mag_X, phase_X, mag_Y, phase_Y, k, mag_out, phase_out)
\* with k = K2 / 2.  mag_out comes out times 4 (2 from k, 2 from frac).
interpolateSpectrum(mag_X, phase_X, mag_Y, phase_Y, K2, num_bins) ==
    Accumulate(mag_X, phase_X, mag_Y, phase_Y, K2, num_bins,
               computeTransportMap(mag_X, mag_Y, num_bins))

\* main_frame / sidechain_frame: the ring read from buffer_read_pos_
Frame(e, buffer) ==
    Array([j \in 0..e.window_size_ - 1 |-> buffer[(e.buffer_read_pos_ + j) % e.window_size_]])

Magnitudes(spectrum, num_bins) == Array([j \in 0..num_bins - 1 |-> CAbs(spectrum[j])])
Phases(spectrum, num_bins) == Array([j \in 0..num_bins - 1 |-> CArg(spectrum[j])])

\* spectrum_output_[j] = std::polar(mag_out[j], phase_out[j])
Polar(r, num_bins) == Array([j \in 0..num_bins - 1 |-> CPolar(r.mag_out[j], r.phase_out[j])])

\* magnitude / phase extraction, interpolateSpectrum and the polar rebuild
Morph(spectrum_main, spectrum_sidechain, K2, num_bins) ==
    Polar(interpolateSpectrum(Magnitudes(spectrum_main, num_bins),
                              Phases(spectrum_main, num_bins),
                              Magnitudes(spectrum_sidechain, num_bins),
                              Phases(spectrum_sidechain, num_bins), K2, num_bins),
          num_bins)

\* the counters after a hop and the overlap-add of output_frame
OverlapAdd(e, output_frame) ==
    [e EXCEPT !.samples_in_buffer_ = e.samples_in_buffer_ - e.hop_size_,
              !.buffer_read_pos_   = (e.buffer_read_pos_ + e.hop_size_) % e.window_size_,
              !.ola_buffer_ =
                  Array([q \in 0..2 * e.window_size_ - 1 |->
                      IF (q - e.ola_write_pos_) % (2 * e.window_size_) < e.window_size_
                      THEN e.ola_buffer_[q]
                           + output_frame[(q - e.ola_write_pos_) % (2 * e.window_size_)]
                      ELSE e.ola_buffer_[q]])]

\* the body of "if (samples_in_buffer_ >= hop_size_)" in process()
CdfHop(e, K2) ==
    OverlapAdd(e, computeISTFT(e, Morph(computeSTFT(e, Frame(e, e.main_buffer_)),
                                        computeSTFT(e, Frame(e, e.sidechain_buffer_)),
                                        K2, e.num_bins_)))

\* the head of the sample loop: store the two input samples
WriteInput(e, in_main, in_side) ==
    [e EXCEPT !.main_buffer_[e.buffer_write_pos_]      = in_main,
              !.sidechain_buffer_[e.buffer_write_pos_] = in_side,
              !.buffer_write_pos_  = (e.buffer_write_pos_ + 1) % e.window_size_,
              !.samples_in_buffer_ = e.samples_in_buffer_ + 1]

\* a hop that waits for one sample more than hop_size_
HopDueLate(e) == e.samples_in_buffer_ > e.hop_size_

\* if (samples_in_buffer_ >= hop_size_)
HopDue(e) == e.samples_in_buffer_ >= e.hop_size_

HopIfDue(e, K2) == IF HopDue(e) THEN CdfHop(e, K2) ELSE e

\* the std::vector objects one hop creates or sizes on the heap: main_frame,
\* sidechain_frame; mag_X, mag_Y, phase_X, phase_Y; mag_out, phase_out;
\* transport_map, cdf_X, cdf_Y; interp_positions, weight_sum, phase_num;
\* output_frame
CdfHopAllocations == 2 + 4 + 2 + 3 + 3 + 1

\* the stores into phases_ one hop performs: process() and the functions it
\* calls work on the local phase_X, phase_Y and phase_out and have no
\* statement that assigns phases_
CdfHopPhaseWrites == 0

\* every sample of the frame is zero
ZeroFrame(frame, window_size) == \A j \in 0..window_size - 1 : frame[j] = 0

\* the record of a hop: `at` samples of the call had been accepted when it
\* fired, on the frames main_frame and sidechain_frame; phases_ before the
\* hop (seeds) and after it (phases), which the hop leaves as it is
CdfHopLog(hops, e, at) ==
    IF HopDue(e)
    THEN Append(hops, [at              |-> at,
                       main_frame      |-> Frame(e, e.main_buffer_),
                       sidechain_frame |-> Frame(e, e.sidechain_buffer_),
                       allocations     |-> CdfHopAllocations,
                       silent          |-> /\ ZeroFrame(Frame(e, e.main_buffer_), e.window_size_)
                                           /\ ZeroFrame(Frame(e, e.sidechain_buffer_),
                                                        e.window_size_),
                       seeds           |-> e.phases_,
                       phases          |-> e.phases_,
                       phase_writes    |-> CdfHopPhaseWrites])
    ELSE hops

WithHops(r, hops) == [e |-> r.e, output |-> r.output, hops |-> hops]

\* the tail of the sample loop: output[i] = ola_buffer_[ola_write_pos_], clear,
\* advance
ReadOutput(e, output) ==
    [ e      |-> [e EXCEPT !.ola_buffer_[e.ola_write_pos_] = 0,
                           !.ola_write_pos_ = (e.ola_write_pos_ + 1) % (2 * e.window_size_)],
      output |-> Append(output, e.ola_buffer_[e.ola_write_pos_]) ]

\* one iteration of the sample loop of process() on st = [e, output, hops]
CdfSample(st, in_main, in_side, K2) ==
    WithHops(ReadOutput(HopIfDue(WriteInput(st.e, in_main, in_side), K2), st.output),
             CdfHopLog(st.hops, WriteInput(st.e, in_main, in_side), Len(st.output) + 1))

\* void process(input_main, input_sidechain, output, buffer_size, k_value):
\* the inputs are sequences of length buffer_size; returns the engine, the
\* output as a sequence and the record of the hops fired
RECURSIVE CdfProcessFrom(_, _, _, _, _, _)
CdfProcessFrom(st, input_main, input_sidechain, buffer_size, K2, i) ==
    IF i > buffer_size THEN st
    ELSE CdfProcessFrom(CdfSample(st, input_main[i], input_sidechain[i], K2),
                        input_main, input_sidechain, buffer_size, K2, i + 1)

\* a process() that counts the samples towards the next hop per call
CdfProcessPerCall(e, input_main, input_sidechain, buffer_size, K2) ==
    CdfProcessFrom([e |-> [e EXCEPT !.samples_in_buffer_ = 0], output |-> <<>>,
                    hops |-> <<>>],
                   input_main, input_sidechain, buffer_size, K2, 1)

CdfProcess(e, input_main, input_sidechain, buffer_size, K2) ==
    CdfProcessFrom([e |-> e, output |-> <<>>, hops |-> <<>>], input_main,
                   input_sidechain, buffer_size, K2, 1)

\* The caller's buffer when output and input_main are the same memory: the
\* first Len(written) cells hold the outputs stored so far, the rest still
\* hold the input.
SharedBuffer(written, input_main) ==
    [i \in 1..Len(input_main) |-> IF i <= Len(written) THEN written[i] ELSE input_main[i]]

\* a sample loop that stores output[i] before it loads input_main[i]
CdfSampleStoresFirst(st, buffer, in_side, K2, i) ==
    ReadOutput(HopIfDue(WriteInput(st.e, SharedBuffer(Append(st.output, st.e.ola_buffer_[st.e.ola_write_pos_]),
                                                buffer)[i],
                                   in_side), K2),
               st.output)

\* one iteration of the sample loop of process() when output == input_main:
\* input_main[i] is loaded from the shared buffer as it is at that moment
CdfSampleAliased(st, buffer, in_side, K2, i) ==
    ReadOutput(HopIfDue(WriteInput(st.e, SharedBuffer(st.output, buffer)[i], in_side), K2),
               st.output)

RECURSIVE CdfProcessAliasedFrom(_, _, _, _, _, _)
CdfProcessAliasedFrom(st, buffer, input_sidechain, buffer_size, K2, i) ==
    IF i > buffer_size THEN st
    ELSE CdfProcessAliasedFrom(CdfSampleAliased(st, buffer, input_sidechain[i], K2, i),
                               buffer, input_sidechain, buffer_size, K2, i + 1)

\* process(buffer, input_sidechain, buffer, buffer_size, k_value)
CdfProcessAliased(e, buffer, input_sidechain, buffer_size, K2) ==
    CdfProcessAliasedFrom([e |-> e, output |-> <<>>], buffer, input_sidechain,
                          buffer_size, K2, 1)

\* ------------------------------------- audio_transport (spectral masses)
\* A spectral point is [value, freq, freq_reassigned]: value is <<re, im>>;
\* frequencies count FreqRes units to the bin spacing 2 pi sample_rate /
\* window_padded.  The point's time fields are written by analyzeWindow and
\* read by nothing, and are left out.
FreqRes == 4 * 4

\* angle units that a frequency of u units advances in window_size / 4:
\* (f * window_size / 2) / 2 of interpolate, window_size in milliseconds
QuarterWindowAdvance(u, c) ==
    RoundDiv(u * c.sample_rate * c.window_ms * 4, 1000 * c.window_padded * FreqRes)

\* angle units that a frequency of u units advances in window_size / 2
HalfWindowAdvance(u, c) ==
    RoundDiv(u * c.sample_rate * c.window_ms * 8, 1000 * c.window_padded * FreqRes)

\* one pass of the scan of group_spectrum over bin i; g is
\* [masses, sign]; masses carry the sum of |value| before normalisation
GroupStep(spectrum, g, i) ==
    LET current_sign == spectrum[i].freq_reassigned > spectrum[i].freq
        n    == Len(g.masses)
        last == g.masses[n]
    IN  IF current_sign = g.sign THEN g
        ELSE IF g.sign
        THEN \* falling: this is the center bin
             LET left_dist  == spectrum[i - 1].freq_reassigned - spectrum[i - 1].freq
                 right_dist == spectrum[i].freq - spectrum[i].freq_reassigned
                 center     == IF left_dist < right_dist THEN i - 1 ELSE i
             IN  [masses |-> [g.masses EXCEPT ![n].center_bin = center],
                  sign   |-> current_sign]
        ELSE \* rising: this is the end of the mass
             LET mass == SumFn([j \in 0..i - 1 |-> CAbs(spectrum[j].value)], last.left_bin, i - 1)
             IN  IF mass > 0
                 THEN [masses |-> Append([g.masses EXCEPT ![n].mass = mass, ![n].right_bin = i],
                                         [left_bin |-> i, center_bin |-> i,
                                          right_bin |-> i, mass |-> 0]),
                       sign   |-> current_sign]
                 ELSE [masses |-> [g.masses EXCEPT ![n].mass = 0], sign |-> current_sign]

RECURSIVE GroupScan(_, _, _, _)
GroupScan(spectrum, g, i, size) ==
    IF i >= size \/ g.masses = <<>> THEN g ELSE GroupScan(spectrum, GroupStep(spectrum, g, i), i + 1, size)

\* a finish that leaves the last mass ending where it began
FinishLastKeepsEnd(spectrum, size, mass_sum, masses) ==
    [ masses   |-> [masses EXCEPT ![Len(masses)].mass =
                                      SumFn([j \in 0..size - 1 |-> CAbs(spectrum[j].value)],
                                            masses[Len(masses)].left_bin, size - 1)],
      mass_sum |-> mass_sum ]

\* "Finish the last mass" of group_spectrum
FinishLast(spectrum, size, mass_sum, masses) ==
    [ masses   |-> [masses EXCEPT ![Len(masses)].right_bin = size,
                                  ![Len(masses)].mass =
                                      SumFn([j \in 0..size - 1 |-> CAbs(spectrum[j].value)],
                                            masses[Len(masses)].left_bin, size - 1)],
      mass_sum |-> mass_sum ]

\* group_spectrum(spectrum): [masses, mass_sum]; the weight of a mass is
\* mass / mass_sum
group_spectrum(spectrum, size) ==
    LET mass_sum == SumFn([i \in 0..size - 1 |-> CAbs(spectrum[i].value)], 0, size - 1)
    IN  IF mass_sum = 0
        THEN [masses   |-> << [left_bin |-> 0, center_bin |-> size \div 2,
                               right_bin |-> size, mass |-> 1] >>,
              mass_sum |-> 1]
        ELSE FinishLast(spectrum, size, mass_sum,
                 GroupScan(spectrum,
                           [masses |-> << [left_bin |-> 0, center_bin |-> 0,
                                           right_bin |-> 0, mass |-> 0] >>,
                            sign   |-> spectrum[0].freq_reassigned > spectrum[0].freq],
                           1, size).masses)

\* the loop of transport_matrix; left and right are sequences of masses
\* already brought to one denominator
RECURSIVE TransportLoop(_, _, _, _, _, _, _)
\* a loop whose second branch hands over what is left of the left mass
TransportLoopGivesLeft(left, right, left_index, right_index, left_mass, right_mass, T) ==
    IF left_mass < right_mass
    THEN IF left_index + 1 > Len(left)
         THEN Append(T, <<left_index, right_index, left_mass>>)
         ELSE TransportLoop(left, right, left_index + 1, right_index,
                            left[left_index + 1], right_mass - left_mass,
                            Append(T, <<left_index, right_index, left_mass>>))
    ELSE IF right_index + 1 > Len(right)
         THEN Append(T, <<left_index, right_index, left_mass>>)
         ELSE TransportLoop(left, right, left_index, right_index + 1,
                            left_mass - right_mass, right[right_index + 1],
                            Append(T, <<left_index, right_index, left_mass>>))

TransportLoop(left, right, left_index, right_index, left_mass, right_mass, T) ==
    IF left_mass < right_mass
    THEN LET T1 == Append(T, <<left_index, right_index, left_mass>>)
         IN  IF left_index + 1 > Len(left) THEN T1
             ELSE TransportLoop(left, right, left_index + 1, right_index,
                                left[left_index + 1], right_mass - left_mass, T1)
    ELSE LET T1 == Append(T, <<left_index, right_index, right_mass>>)
         IN  IF right_index + 1 > Len(right) THEN T1
             ELSE TransportLoop(left, right, left_index, right_index + 1,
                                left_mass - right_mass, right[right_index + 1], T1)

\* transport_matrix(left, right) on two non-empty sequences of masses
\* (numbers over a common denominator): triples <<left index, right index,
\* mass>>, indices counted from 1
transport_matrix(left, right) ==
    TransportLoop(left, right, 1, 1, left[1], right[1], <<>>)

\* the bin loop of place_mass; acc is [value, phases, amplitudes, freq_r]
\* (output[..].value, new_phases, new_amplitudes, output[..].freq_reassigned).
\* The vectors are never empty; the test on acc.amplitudes has every pass
\* work on the stored result of the pass before.
RECURSIVE PlaceBins(_, _, _, _, _, _, _, _, _, _, _)
PlaceBins(mass, center_bin, scale_num, scale_den, interpolated_freq, phase_shift, input, size, next_phase, acc, i) ==
    IF i >= mass.right_bin \/ acc.amplitudes = <<>> THEN acc
    ELSE LET new_i == i + center_bin - mass.center_bin
             phase == phase_shift + CArg(input[i].value)
             mag   == RoundDiv(scale_num * CAbs(input[i].value), scale_den)
             p     == CPolar(mag, phase)
             acc1  == IF new_i < 0 \/ new_i >= size THEN acc
                      ELSE LET a == [acc EXCEPT !.value[new_i] =
                                        <<acc.value[new_i][1] + p[1], acc.value[new_i][2] + p[2]>>]
                           IN  IF mag > acc.amplitudes[new_i]
                               THEN [a EXCEPT !.amplitudes[new_i] = mag,
                                              !.phases[new_i]     = next_phase,
                                              !.freq_r[new_i]     = interpolated_freq]
                               ELSE a
         IN  PlaceBins(mass, center_bin, scale_num, scale_den, interpolated_freq,
                       phase_shift, input, size, next_phase, acc1, i + 1)

\* place_mass(mass, center_bin, scale, interpolated_freq, center_phase, input,
\* output, next_phase, phases, amplitudes), scale = scale_num / scale_den.
\* Magnitudes come out doubled (the two halves of k are not divided out).
\* c carries sample_rate and window_padded for the 30 Hz test.
place_mass(mass, center_bin, scale_num, scale_den, interpolated_freq, center_phase, input, size, next_phase, acc, c) ==
    IF scale_num < 0 THEN acc
    ELSE LET \* |f| / 30 Hz = low_num / low_den, f = u * 2 pi sample_rate / (padded * FreqRes)
             low_num == Abs(interpolated_freq) * 44 * c.sample_rate
             low_den == 210 * c.window_padded * FreqRes
             att(v)  == IF low_num < low_den
                        THEN RoundDiv(RoundDiv(v * low_num, low_den) * low_num, low_den)
                        ELSE v
             phase_shift == center_phase - CArg(input[mass.center_bin].value)
         IN  PlaceBins(mass, center_bin, att(scale_num), scale_den, interpolated_freq,
                       phase_shift, input, size, next_phase, acc, mass.left_bin)

\* std::round of num / den, den > 0: halves away from zero
RoundHalfAway(num, den) ==
    IF num >= 0 THEN (2 * num + den) \div (2 * den)
    ELSE -((2 * (-num) + den) \div (2 * den))

\* int interpolated_bin = std::round((1 - interpolation) * left center_bin
\* + interpolation * right center_bin), k = K2 / 2
InterpolatedBin(cl, cr, K2) == RoundHalfAway((2 - K2) * cl + K2 * cr, 2)

\* the body of "for (auto t : T)" of interpolate for one triple t.  L and R
\* are the grouped spectra; the triple's mass is over L.mass_sum * R.mass_sum.
\* stray is what phases[interpolated_bin] yields when the index lies outside
\* the vector.
InterpolateTriple(left, right, size, L, R, phases, K2, t, acc, c, stray) ==
    LET left_mass  == L.masses[t[1]]
        right_mass == R.masses[t[2]]
        cl == left_mass.center_bin
        cr == right_mass.center_bin
        interpolated_bin == InterpolatedBin(cl, cr, K2)
        fl == left[cl].freq_reassigned
        fr == right[cr].freq_reassigned
        interpolated_freq ==
            IF cl # cr
            THEN IF cr > cl
                 THEN RoundDiv((cr - interpolated_bin) * fl + (interpolated_bin - cl) * fr, cr - cl)
                 ELSE RoundDiv((interpolated_bin - cr) * fl + (cl - interpolated_bin) * fr, cl - cr)
            ELSE RoundDiv((2 - K2) * fl + K2 * fr, 2)
        seed == IF interpolated_bin >= 0 /\ interpolated_bin < size
                THEN phases[interpolated_bin] ELSE stray
        adv          == QuarterWindowAdvance(interpolated_freq, c)
        center_phase == seed + adv - 8 * interpolated_bin
        new_phase    == center_phase + adv + 8 * interpolated_bin
        \* left_scale = (1 - k) * m / left_mass.mass, doubled
        lnum == IF left_mass.mass > 0 THEN (2 - K2) * t[3] ELSE 0
        lden == Max(left_mass.mass * R.mass_sum, 1)
        rnum == IF right_mass.mass > 0 THEN K2 * t[3] ELSE 0
        rden == Max(right_mass.mass * L.mass_sum, 1)
        a1 == place_mass(left_mass, interpolated_bin, lnum, lden, interpolated_freq,
                         center_phase, left, size, new_phase, acc, c)
    IN  place_mass(right_mass, interpolated_bin, rnum, rden, interpolated_freq,
                   center_phase, right, size, new_phase, a1, c)

RECURSIVE InterpolateLoop(_, _, _, _, _, _, _, _, _, _, _, _)
InterpolateLoop(left, right, size, L, R, phases, K2, T, n, acc, c, stray) ==
    IF n > Len(T) \/ acc.amplitudes = <<>> THEN acc
    ELSE InterpolateLoop(left, right, size, L, R, phases, K2, T, n + 1,
             InterpolateTriple(left, right, size, L, R, phases, K2, T[n], acc, c, stray),
             c, stray)

\* the masses of a grouped spectrum over the denominator mass_sum * d
MassesOver(G, d) == [n \in 1..Len(G.masses) |-> G.masses[n].mass * d]

\* the interpolated spectrum and the new phases, from what place_mass left
Interpolated(left, size, acc) ==
    [ spectrum |-> Array([i \in 0..size - 1 |->
                        [value |-> acc.value[i], freq |-> left[i].freq,
                         freq_reassigned |-> acc.freq_r[i]]]),
      phases   |-> acc.phases ]

\* the part of interpolate after group_spectrum: L and R are the grouped
\* spectra
Transport(left, right, phases, size, K2, c, stray, L, R) ==
    Interpolated(left, size,
        InterpolateLoop(left, right, size, L, R, phases, K2,
                        transport_matrix(MassesOver(L, R.mass_sum), MassesOver(R, L.mass_sum)),
                        1,
                        [ value      |-> Array([i \in 0..size - 1 |-> <<0, 0>>]),
                          phases     |-> Zeros(size),
                          amplitudes |-> Zeros(size),
                          freq_r     |-> Zeros(size) ],
                        c, stray))

\* the indices interpolated_bin at which the loop over the triples of T
\* reads and writes phases
SeedBinsOf(L, R, K2, T) ==
    { InterpolatedBin(L.masses[T[n][1]].center_bin, R.masses[T[n][2]].center_bin, K2) :
          n \in 1..Len(T) }

\* the same for the grouped spectra L and R, with the transport matrix of
\* their masses as interpolate computes it
SeedBinsGrouped(L, R, K2) ==
    SeedBinsOf(L, R, K2,
               transport_matrix(MassesOver(L, R.mass_sum), MassesOver(R, L.mass_sum)))

\* true when no bin of the spectrum has magnitude
SilentSpectrum(spectrum, size) == \A i \in 0..size - 1 : CAbs(spectrum[i].value) = 0

\* the indices into phases that interpolate(left, right, phases, ., k)
\* computes from k: none on the paths for a silent side
SeedBins(left, right, size, K2) ==
    IF SilentSpectrum(left, size) \/ SilentSpectrum(right, size) THEN {}
    ELSE SeedBinsGrouped(group_spectrum(left, size), group_spectrum(right, size), K2)

\* interpolate(left, right, phases, window_size, interpolation), k = K2 / 2:
\* [spectrum, phases].  Output values are 8 times the input values' scale
\* (2 from k, 4 from std::polar).
interpolate(left, right, phases, size, K2, c, stray) ==
    LET bins == 0..size - 1
        left_mass_sum  == SumFn([i \in bins |-> CAbs(left[i].value)], 0, size - 1)
        right_mass_sum == SumFn([i \in bins |-> CAbs(right[i].value)], 0, size - 1)
        left_silent  == left_mass_sum = 0
        right_silent == right_mass_sum = 0
        scaled(src, f) ==
            [ spectrum |-> Array([i \in bins |->
                               [src[i] EXCEPT !.value = <<4 * f * src[i].value[1],
                                                          4 * f * src[i].value[2]>>]]),
              phases   |-> Array([i \in bins |->
                               IF CAbs(src[i].value) > 0
                               THEN CArg(src[i].value)
                                    + HalfWindowAdvance(src[i].freq_reassigned, c)
                               ELSE phases[i]]) ]
    IN  IF left_silent /\ right_silent
        THEN [ spectrum |-> Array([i \in bins |->
                                [value |-> <<0, 0>>, freq |-> left[i].freq,
                                 freq_reassigned |-> 0]]),
               phases   |-> phases ]
        ELSE IF left_silent THEN scaled(right, K2)
        ELSE IF right_silent THEN scaled(left, 2 - K2)
        ELSE Transport(left, right, phases, size, K2, c, stray,
                       group_spectrum(left, size), group_spectrum(right, size))

\* ------------------------------------------- RealtimeReassignmentTransport
\* spectral::hann(n, N) at n = i - (N - 1) / 2, in quarters
hann(i, N) == 2 - CosS(2, i, N - 1)

\* spectral::hann_d(n, N, sample_rate) at n = i - (N - 1) / 2: the derivative
\* of hann per sample, in quarters of (pi sample_rate / (N - 1))
hann_d(i, N) == SinS(4, i, N - 1)

RECURSIVE RoundUpWindow(_, _)
RoundUpWindow(window_samples, hop_divisor) ==
    IF window_samples % (2 * hop_divisor) = 0 THEN window_samples
    ELSE RoundUpWindow(window_samples + 1, hop_divisor)

\* the sizes the constructor derives; window_size_ is kept in milliseconds
ReasSizes(sample_rate, window_ms, hop_divisor, fft_padding) ==
    LET window_samples == RoundUpWindow(RoundDiv(window_ms * sample_rate, 1000), hop_divisor)
        window_padded  == window_samples * (1 + fft_padding)
    IN  [ sample_rate_    |-> sample_rate,
          window_size_    |-> window_ms,
          hop_divisor_    |-> hop_divisor,
          fft_padding_    |-> fft_padding,
          window_samples_ |-> window_samples,
          window_padded_  |-> window_padded,
          hop_size_       |-> window_samples \div (2 * hop_divisor),
          fft_size_       |-> window_padded \div 2 + 1 ]

ReasGetLatencySamples(e) == (2 * e.hop_divisor_ - 1) * e.hop_size_

\* RealtimeReassignmentTransport(sample_rate, window_ms, hop_divisor, fft_padding)
ReasNew(sample_rate, window_ms, hop_divisor, fft_padding) ==
    LET z == ReasSizes(sample_rate, window_ms, hop_divisor, fft_padding)
    IN  [ sample_rate_      |-> z.sample_rate_,
          window_size_      |-> z.window_size_,
          hop_divisor_      |-> z.hop_divisor_,
          fft_padding_      |-> z.fft_padding_,
          window_samples_   |-> z.window_samples_,
          window_padded_    |-> z.window_padded_,
          hop_size_         |-> z.hop_size_,
          fft_size_         |-> z.fft_size_,
          input_write_pos_  |-> 0,
          output_read_pos_  |-> 0,
          main_buffer_      |-> Zeros(z.window_samples_ + z.hop_size_),
          sidechain_buffer_ |-> Zeros(z.window_samples_ + z.hop_size_),
          output_buffer_    |-> Zeros(ReasGetLatencySamples(z) + z.hop_size_ * 4),
          phases_           |-> Zeros(z.fft_size_),
          overlap_buffer_   |-> Zeros(z.window_samples_ + z.hop_size_) ]

ReasReset(e) ==
    [ e EXCEPT !.main_buffer_      = Zeros(e.window_samples_ + e.hop_size_),
               !.sidechain_buffer_ = Zeros(e.window_samples_ + e.hop_size_),
               !.output_buffer_    = Zeros(ReasGetLatencySamples(e) + e.hop_size_ * 4),
               !.phases_           = Zeros(e.fft_size_),
               !.overlap_buffer_   = Zeros(e.window_samples_ + e.hop_size_),
               !.input_write_pos_  = 0,
               !.output_read_pos_  = 0 ]

\* "Build spectral points" of analyzeWindow from the two transforms.
\* freq_offset = -Im(X_d / X) / (2 pi) in frequency units, with pi = 22 / 7.
Points(e, fft, fft_d) ==
    Array([i \in 0..e.fft_size_ - 1 |->
        [ value |-> fft[i],
          freq  |-> i * FreqRes,
          freq_reassigned |->
              IF CAbs(fft[i]) > 0
              THEN i * FreqRes
                   + RoundDiv(-(fft_d[i][2] * fft[i][1] - fft_d[i][1] * fft[i][2])
                                  * e.window_padded_ * FreqRes * 7,
                              (fft[i][1] * fft[i][1] + fft[i][2] * fft[i][2])
                                  * 88 * (e.window_samples_ - 1))
              ELSE i * FreqRes ]])

\* the placement of the windowed input in window_padded_ samples
Centred(e, j) == j - (e.window_padded_ - e.window_samples_) \div 2

\* window_ of analyzeWindow
WindowOf(e, input) ==
    Array([j \in 0..e.window_padded_ - 1 |->
        IF Centred(e, j) >= 0 /\ Centred(e, j) < e.window_samples_
        THEN input[Centred(e, j)] * hann(Centred(e, j), e.window_samples_)
        ELSE 0])

\* window_d_ of analyzeWindow
WindowDOf(e, input) ==
    Array([j \in 0..e.window_padded_ - 1 |->
        IF Centred(e, j) >= 0 /\ Centred(e, j) < e.window_samples_
        THEN input[Centred(e, j)] * hann_d(Centred(e, j), e.window_samples_)
        ELSE 0])

\* analyzeWindow(input, spectrum): the spectrum of the first window_samples_
\* samples of input
analyzeWindow(e, input) ==
    Points(e, FFTr2c(WindowOf(e, input), e.window_padded_),
              FFTr2c(WindowDOf(e, input), e.window_padded_))

\* the tail of synthesizeWindow: copy out one hop and shift overlap_buffer_
Emit(e, added) ==
    [ output          |-> Array([i \in 0..e.hop_size_ - 1 |-> added[i]]),
      overlap_buffer_ |-> Array([i \in 0..e.window_samples_ + e.hop_size_ - 1 |->
                              IF i + e.hop_size_ < e.window_samples_ + e.hop_size_
                              THEN added[i + e.hop_size_] ELSE 0]) ]

\* overlap_buffer_[i] += window_[i + padding_samples] / (hop_divisor_ * window_padded_)
OverlapAddWindow(e, window) ==
    Array([i \in 0..e.window_samples_ + e.hop_size_ - 1 |->
        IF i < e.window_samples_
        THEN e.overlap_buffer_[i]
             + RoundDiv(window[i + (e.window_padded_ - e.window_samples_) \div 2],
                        e.hop_divisor_ * e.window_padded_)
        ELSE e.overlap_buffer_[i]])

Values(spectrum, size) == Array([i \in 0..size - 1 |-> spectrum[i].value])

\* synthesizeWindow(spectrum, output): [overlap_buffer_, output]
synthesizeWindow(e, spectrum) ==
    Emit(e, OverlapAddWindow(e, FFTc2r(Values(spectrum, e.fft_size_), e.window_padded_)))

\* "Write to output buffer" of processHop, with the engine's new phases_ and
\* overlap_buffer_
StoreHop(e, phases, syn) ==
    LET size  == ReasGetLatencySamples(e) + e.hop_size_ * 4
        first == e.output_read_pos_ + ReasGetLatencySamples(e)
    IN  [ e EXCEPT !.phases_         = phases,
                   !.overlap_buffer_ = syn.overlap_buffer_,
                   !.output_buffer_  =
                       Array([j \in 0..size - 1 |->
                           IF \E i \in 0..e.hop_size_ - 1 : (first + i) % size = j
                           THEN syn.output[CHOOSE i \in 0..e.hop_size_ - 1 :
                                               (first + i) % size = j]
                           ELSE e.output_buffer_[j]]) ]

Synthesized(e, morphed) == StoreHop(e, morphed.phases, synthesizeWindow(e, morphed.spectrum))

\* processHop(k)
processHop(e, K2, stray) ==
    Synthesized(e, interpolate(analyzeWindow(e, e.main_buffer_),
                               analyzeWindow(e, e.sidechain_buffer_),
                               e.phases_, e.fft_size_, K2,
                               [sample_rate |-> e.sample_rate_, window_ms |-> e.window_size_,
                                window_padded |-> e.window_padded_],
                               stray))

\* "Copy input samples to buffers" of process
CopyInput(e, input_main, input_sidechain, samples_processed, samples_to_copy) ==
    LET base == e.window_samples_ - e.hop_size_ + e.input_write_pos_
        copy(buf, in) == Array([j \in 0..e.window_samples_ + e.hop_size_ - 1 |->
                             IF j >= base /\ j < base + samples_to_copy
                             THEN in[samples_processed + (j - base) + 1]
                             ELSE buf[j]])
    IN  [ e EXCEPT !.main_buffer_      = copy(e.main_buffer_, input_main),
                   !.sidechain_buffer_ = copy(e.sidechain_buffer_, input_sidechain),
                   !.input_write_pos_  = e.input_write_pos_ + samples_to_copy ]

\* "Shift input buffers" of process
ShiftInput(e) ==
    LET size == e.window_samples_ + e.hop_size_
        shift(buf) == Array([j \in 0..size - 1 |->
                          IF j + e.hop_size_ < size THEN buf[j + e.hop_size_] ELSE 0])
    IN  [ e EXCEPT !.main_buffer_      = shift(e.main_buffer_),
                   !.sidechain_buffer_ = shift(e.sidechain_buffer_),
                   !.input_write_pos_  = 0 ]

\* processHop creates main_spectrum, sidechain_spectrum, the vector that
\* interpolate returns and hop_output (the vectors interpolate works on are
\* not counted)
ReasHopAllocations == 2 + 1 + 1

\* if (input_write_pos_ >= hop_size_)
HopFilled(e) == e.input_write_pos_ >= e.hop_size_

\* the samples processHop has just stored in output_buffer_
HopOutput(h) ==
    [i \in 0..h.hop_size_ - 1 |->
        h.output_buffer_[(h.output_read_pos_ + ReasGetLatencySamples(h) + i)
                             % (ReasGetLatencySamples(h) + h.hop_size_ * 4)]]

\* left_silent && right_silent of interpolate on the spectra of the two
\* input buffers
BothSilent(main_spectrum, sidechain_spectrum, size) ==
    SilentSpectrum(main_spectrum, size) /\ SilentSpectrum(sidechain_spectrum, size)

\* the stores into phases_ one hop performs: interpolate fills phases once,
\* in its last loop or in the loop of the branch for one silent side, and
\* returns before that when both sides are silent
ReasHopPhaseWrites(silent) == IF silent THEN 0 ELSE 1

\* the record of the hop that took the engine e to h on the spectra of its
\* two input buffers, fired when `at` samples of the call had been accepted
HopRecord(main_spectrum, sidechain_spectrum, e, h, at) ==
    [ at           |-> at,
      hop_output   |-> HopOutput(h),
      allocations  |-> ReasHopAllocations,
      silent       |-> BothSilent(main_spectrum, sidechain_spectrum, e.fft_size_),
      seeds        |-> e.phases_,
      phases       |-> h.phases_,
      phase_writes |-> ReasHopPhaseWrites(BothSilent(main_spectrum, sidechain_spectrum,
                                                     e.fft_size_)) ]

\* the engine h just after processHop: shift the inputs, record the hop
HopLogged(hops, e, h, at) ==
    [ e    |-> ShiftInput(h),
      hops |-> Append(hops,
                      HopRecord(analyzeWindow(e, e.main_buffer_),
                                analyzeWindow(e, e.sidechain_buffer_), e, h, at)) ]

\* "If we've filled a hop, process it": e has just accepted its samples
HopIfFilled(e, hops, K2, stray, at) ==
    IF HopFilled(e) THEN HopLogged(hops, e, processHop(e, K2, stray), at)
    ELSE [e |-> e, hops |-> hops]

\* samples_to_copy
SamplesToCopy(e, buffer_size, samples_processed) ==
    Min(e.hop_size_ - e.input_write_pos_, buffer_size - samples_processed)

\* the while loop of process on st = [e, hops]
RECURSIVE ReasAccept(_, _, _, _, _, _, _)
ReasAccept(st, input_main, input_sidechain, buffer_size, K2, stray, samples_processed) ==
    IF samples_processed >= buffer_size THEN st
    ELSE ReasAccept(
             HopIfFilled(
                 CopyInput(st.e, input_main, input_sidechain, samples_processed,
                           SamplesToCopy(st.e, buffer_size, samples_processed)),
                 st.hops, K2, stray,
                 samples_processed + SamplesToCopy(st.e, buffer_size, samples_processed)),
             input_main, input_sidechain, buffer_size, K2, stray,
             samples_processed + SamplesToCopy(st.e, buffer_size, samples_processed))

\* "Copy output samples" of process
CopyOutput(e, buffer_size) ==
    LET size == ReasGetLatencySamples(e) + e.hop_size_ * 4
        read(i) == (e.output_read_pos_ + i) % size
    IN  [ e |-> [ e EXCEPT !.output_buffer_ =
                               Array([j \in 0..size - 1 |->
                                   IF \E i \in 0..buffer_size - 1 : read(i) = j
                                   THEN 0 ELSE e.output_buffer_[j]]),
                           !.output_read_pos_ = (e.output_read_pos_ + buffer_size) % size ],
          output |-> [i \in 1..buffer_size |->
                         IF i - 1 < size THEN e.output_buffer_[read(i - 1)] ELSE 0] ]

\* the copy-out loop after the while loop has left st = [e, hops]
CopiedOut(st, buffer_size) == WithHops(CopyOutput(st.e, buffer_size), st.hops)

\* process(input_main, input_sidechain, output, buffer_size, k):
\* [e, output, hops]
ReasProcess(e, input_main, input_sidechain, buffer_size, K2, stray) ==
    CopiedOut(ReasAccept([e |-> e, hops |-> <<>>], input_main, input_sidechain,
                         buffer_size, K2, stray, 0),
              buffer_size)

\* process(buffer, input_sidechain, buffer, buffer_size, k): the while loop
\* loads every input sample from the shared buffer before the copy-out loop
\* stores the first output
ReasProcessAliased(e, buffer, input_sidechain, buffer_size, K2, stray) ==
    CopiedOut(ReasAccept([e |-> e, hops |-> <<>>], SharedBuffer(<<>>, buffer),
                         input_sidechain, buffer_size, K2, stray, 0),
              buffer_size)

\* ------------------------------------------------ AudioTransportProcessor
\* The plugin facade.  cdfProcessor and reassignmentProcessor are Null until
\* the first rebuildProcessor().  `latency` is the value last handed to
\* setLatencySamples.  lastWindowSize and lastAlgorithm are the function-local
\* statics of processBlock, initialised by the first call that reaches them.
\* `rebuilt` tells whether the last handler ran rebuildProcessor().
Null == [null |-> TRUE]

NoPlugin ==
    [ cdfProcessor          |-> Null,
      reassignmentProcessor |-> Null,
      windowSizeParam       |-> 100,
      algorithmParam        |-> 0,
      currentSampleRate     |-> 44100,
      needsProcessorRebuild |-> FALSE,
      mainDelayBuffer       |-> Zeros(0),
      sidechainDelayBuffer  |-> Zeros(0),
      delayBufferWritePos   |-> 0,
      delayBufferSize       |-> 0,
      latency               |-> 0,
      statics               |-> FALSE,
      lastWindowSize        |-> 0,
      lastAlgorithm         |-> 0,
      rebuilt               |-> FALSE ]

\* int AudioTransportProcessor::getLatencySamples() const
PluginGetLatencySamples(p) ==
    IF p.algorithmParam = 0 /\ p.cdfProcessor # Null
    THEN CdfGetLatencySamples(p.cdfProcessor)
    ELSE IF p.algorithmParam = 1 /\ p.reassignmentProcessor # Null
    THEN ReasGetLatencySamples(p.reassignmentProcessor)
    ELSE 0

\* setLatencySamples(getLatencySamples())
ReportLatency(p) == [p EXCEPT !.latency = PluginGetLatencySamples(p)]

\* void updateDelayBuffers()
updateDelayBuffers(p) ==
    IF Max(PluginGetLatencySamples(p), 1) # p.delayBufferSize
    THEN [p EXCEPT !.delayBufferSize      = Max(PluginGetLatencySamples(p), 1),
                   !.mainDelayBuffer      = Zeros(Max(PluginGetLatencySamples(p), 1)),
                   !.sidechainDelayBuffer = Zeros(Max(PluginGetLatencySamples(p), 1)),
                   !.delayBufferWritePos  = 0]
    ELSE p

\* void rebuildProcessor()
rebuildProcessor(p) ==
    updateDelayBuffers(ReportLatency(
        [p EXCEPT !.cdfProcessor = CdfNew(p.currentSampleRate, p.windowSizeParam, 4, 2),
                  !.reassignmentProcessor =
                      ReasNew(p.currentSampleRate, p.windowSizeParam, 4, 2),
                  !.needsProcessorRebuild = FALSE,
                  !.rebuilt = TRUE]))

\* void prepareToPlay(double sampleRate, int samplesPerBlock)
prepareToPlay(p, sampleRate) ==
    updateDelayBuffers(ReportLatency(
        rebuildProcessor([p EXCEPT !.currentSampleRate = sampleRate, !.rebuilt = FALSE])))

\* void releaseResources()
releaseResources(p) ==
    [p EXCEPT !.cdfProcessor = IF @ = Null THEN @ ELSE CdfReset(@),
              !.reassignmentProcessor = IF @ = Null THEN @ ELSE ReasReset(@),
              !.mainDelayBuffer       = Zeros(p.delayBufferSize),
              !.sidechainDelayBuffer  = Zeros(p.delayBufferSize),
              !.delayBufferWritePos   = 0,
              !.rebuilt               = FALSE]

\* void setStateInformation(data, sizeInBytes) with a stored window size and
\* algorithm
setStateInformation(p, windowSize, algorithm) ==
    [p EXCEPT !.windowSizeParam       = windowSize,
              !.algorithmParam        = algorithm,
              !.needsProcessorRebuild = TRUE,
              !.rebuilt               = FALSE]

\* static float lastWindowSize = ...; static int lastAlgorithm = ...;
Statics(p) ==
    IF p.statics THEN p
    ELSE [p EXCEPT !.statics        = TRUE,
                   !.lastWindowSize = p.windowSizeParam,
                   !.lastAlgorithm  = p.algorithmParam]

\* if (std::abs(windowSizeParam->get() - lastWindowSize) > 0.5f)
WindowCheck(p) ==
    IF 2 * Abs(p.windowSizeParam - p.lastWindowSize) > 1
    THEN [p EXCEPT !.lastWindowSize = p.windowSizeParam, !.needsProcessorRebuild = TRUE]
    ELSE p

\* if (algorithmParam->getIndex() != lastAlgorithm)
AlgorithmCheck(p) ==
    IF p.algorithmParam # p.lastAlgorithm
    THEN updateDelayBuffers(ReportLatency([p EXCEPT !.lastAlgorithm = p.algorithmParam]))
    ELSE p

\* if (needsProcessorRebuild) rebuildProcessor();
RebuildIfNeeded(p) == IF p.needsProcessorRebuild THEN rebuildProcessor(p) ELSE p

\* the delay lines of the dry signals; st is [p, dryMain, drySidechain]
RECURSIVE Delayed(_, _, _, _)
Delayed(st, mainInput, sidechainInput, i) ==
    IF i > Len(mainInput) \/ st.p.delayBufferSize < 0 THEN st
    ELSE IF st.p.delayBufferSize > 0
    THEN Delayed([ p |-> [st.p EXCEPT
                             !.mainDelayBuffer[st.p.delayBufferWritePos]      = mainInput[i],
                             !.sidechainDelayBuffer[st.p.delayBufferWritePos] = sidechainInput[i],
                             !.delayBufferWritePos =
                                 (st.p.delayBufferWritePos + 1) % st.p.delayBufferSize],
                   dryMain      |-> Append(st.dryMain,
                                           st.p.mainDelayBuffer[st.p.delayBufferWritePos]),
                   drySidechain |-> Append(st.drySidechain,
                                           st.p.sidechainDelayBuffer[st.p.delayBufferWritePos]) ],
                 mainInput, sidechainInput, i + 1)
    ELSE [p |-> st.p, dryMain |-> mainInput, drySidechain |-> sidechainInput]

\* A setting g is what processBlock reads from morphModeParam, morphParam and
\* dryWetParam: [morphMode, morph, dryWet], morph in quarters and dryWet 0
\* (0 %) or 1 (100 %).  The operators below are the branches of processBlock
\* on quarter values of morph; k = 1 in "Dry at Extremes" mode
\* (gainCompensation = 0.707) is not among them.
MorphK2(g) ==
    IF g.morphMode = 0 THEN g.morph \div 2
    ELSE IF g.morph <= 2 THEN g.morph ELSE 4 - g.morph

\* mainDryBlend: 1 - morphValue / 0.05 below 0.05, else 0
MainDryBlend(g) == IF g.morphMode = 1 /\ g.morph = 0 THEN 1 ELSE 0

\* sidechainDryBlend: (morphValue - 0.95) / 0.05 above 0.95, else 0
SidechainDryBlend(g) == IF g.morphMode = 1 /\ g.morph = 4 THEN 1 ELSE 0

MorphedBlend(g) == 1 - MainDryBlend(g) - SidechainDryBlend(g)

FlipInputs(g) == g.morphMode = 1 /\ g.morph > 2

hasProcessor(p) ==
    \/ p.algorithmParam = 0 /\ p.cdfProcessor # Null
    \/ p.algorithmParam = 1 /\ p.reassignmentProcessor # Null

\* cdfProcessor->process(...) or reassignmentProcessor->process(...)
RunEngine(p, tempMain, tempSidechain, K2) ==
    IF p.algorithmParam = 0
    THEN CdfProcess(p.cdfProcessor, tempMain, tempSidechain, Len(tempMain), K2)
    ELSE ReasProcess(p.reassignmentProcessor, tempMain, tempSidechain, Len(tempMain), K2, 0)

WithEngine(p, e) ==
    IF p.algorithmParam = 0 THEN [p EXCEPT !.cdfProcessor = e]
    ELSE [p EXCEPT !.reassignmentProcessor = e]

\* "Blend with dry signals" and "Apply dry/wet mix".  Dry terms are in sample
\* units and the morphed term in the engine's output units; no setting drawn
\* gives weight to both.
Mixed(d, g, morphed) ==
    [i \in 1..Len(d.dryMain) |->
        d.dryMain[i] * (1 - g.dryWet)
        + (morphed[i] * MorphedBlend(g) + d.dryMain[i] * MainDryBlend(g)
           + d.drySidechain[i] * SidechainDryBlend(g)) * g.dryWet]

Transported(d, g, r) == [p |-> WithEngine(d.p, r.e), output |-> Mixed(d, g, r.output)]

\* the part of processBlock after the delay lines; d is [p, dryMain,
\* drySidechain]
Blended(d, mainInput, sidechainInput, g) ==
    IF hasProcessor(d.p) /\ 1000 * MorphedBlend(g) > 1
    THEN Transported(d, g,
             RunEngine(d.p, IF FlipInputs(g) THEN sidechainInput ELSE mainInput,
                            IF FlipInputs(g) THEN mainInput ELSE sidechainInput,
                       MorphK2(g)))
    ELSE [p |-> d.p, output |-> Mixed(d, g, [i \in 1..Len(mainInput) |-> 0])]

\* the part of processBlock after the parameter checks; in bypass the buffer
\* is left as it is
AudioPath(p, mainInput, sidechainInput, g, bypass) ==
    IF bypass THEN [p |-> p, output |-> mainInput]
    ELSE Blended(Delayed([p |-> p, dryMain |-> <<>>, drySidechain |-> <<>>],
                         mainInput, sidechainInput, 1),
                 mainInput, sidechainInput, g)

\* void processBlock(buffer, midiMessages): [p, output]
processBlock(p, mainInput, sidechainInput, g, bypass) ==
    AudioPath(RebuildIfNeeded(AlgorithmCheck(WindowCheck(Statics(
                  [p EXCEPT !.rebuilt = FALSE])))),
              mainInput, sidechainInput, g, bypass)

\* ------------------------------------------------------------ the system
\* One behaviour drives one engine object (obj) with a blend factor k that
\* stays the same for all its process() calls.
VARIABLES
    obj,        \* "cdf" or "reas": the engine this behaviour drives
    k,          \* 2 * k of every process() call of the behaviour
    cdf,        \* the RealtimeAudioTransport object
    reas,       \* the RealtimeReassignmentTransport object
    hist_main,  \* main samples fed since construction / the last reset
    hist_side,  \* sidechain samples fed since then
    outs,       \* output samples written since then
    fed,        \* samples fed since construction
    last,       \* the last call: its name, arguments and output
    mags,       \* the spectra handed to interpolateSpectrum and its result
    hops,       \* the hops fired since construction / the last reset
    plugin,     \* the AudioTransportProcessor object
    built,      \* a constructor call: its arguments and the sizes it derived
    call,       \* a call of group_spectrum or transport_matrix and its result
    plugin2,    \* a second AudioTransportProcessor object of the same process
    threads     \* the audio thread and the UI thread inside one plugin object

vars == <<obj, k, cdf, reas, hist_main, hist_side, outs, fed, last, mags, hops, plugin, built, call, plugin2, threads>>

\* one sample of <<main, sidechain>>: silence, main alone, sidechain alone
Frames == {<<0, 0>>, <<1, 0>>, <<0, 1>>}
Blocks(n) == [1..n -> Frames]
Main(block) == [i \in 1..Len(block) |-> block[i][1]]
Side(block) == [i \in 1..Len(block) |-> block[i][2]]
\* k = -1, 0, 1/2, 1, 2
KValues == {-2, 0, 1, 2, 4}
Rates == {2000}
\* what a read past the end of the phase vector may yield
Strays == {0, 4}

CdfConfig  == [sample_rate |-> 1000, window_ms |-> 8, hop_divisor |-> 4, fft_mult |-> 1]
ReasConfig == [sample_rate |-> 1000, window_ms |-> 4, hop_divisor |-> 2, fft_padding |-> 1]

CdfConstruct(c)  == CdfNew(c.sample_rate, c.window_ms, c.hop_divisor, c.fft_mult)
ReasConstruct(c) == ReasNew(c.sample_rate, c.window_ms, c.hop_divisor, c.fft_padding)

NoCall == [op |-> "construct", n |-> 0, rate |-> 0, stray |-> 0]
\* no constructor call yet
NoBuilt == [done |-> FALSE]
\* no call of a spectrum function yet
NoPureCall == [done |-> FALSE]
\* no thread running
NoThreads == [running |-> FALSE]

NoMags == [mag_X |-> <<>>, mag_Y |-> <<>>, K2 |-> 0, done |-> FALSE,
           mag_out |-> <<>>, phase_out |-> <<>>, transport_map |-> <<>>]

Init ==
    /\ obj \in {"cdf", "reas"}
    /\ k \in KValues
    /\ cdf = CdfConstruct(CdfConfig)
    /\ reas = ReasConstruct(ReasConfig)
    /\ hist_main = <<>>
    /\ hist_side = <<>>
    /\ outs = <<>>
    /\ fed = 0
    /\ last = NoCall
    /\ mags = NoMags
    /\ hops = <<>>
    /\ call = NoPureCall
    /\ plugin2 = NoPlugin
    /\ threads = NoThreads
    /\ plugin = NoPlugin
    /\ built = NoBuilt

\* the hops of a call, counted in samples since construction / reset
Since(call_hops, before) ==
    [m \in 1..Len(call_hops) |-> [call_hops[m] EXCEPT !.at = before + call_hops[m].at]]

\* what a process() call that returned r = [e, output, hops] leaves
Processed(r, block) ==
    /\ hist_main' = hist_main \o Main(block)
    /\ hist_side' = hist_side \o Side(block)
    /\ outs' = outs \o r.output
    /\ hops' = hops \o Since(r.hops, Len(hist_main))
    /\ fed' = fed + Len(block)

\* cdf.process(input_main, input_sidechain, output, buffer_size, k)
CdfProcessed(r, block) ==
    /\ cdf' = r.e
    /\ Processed(r, block)
    /\ last' = [NoCall EXCEPT !.op = "process", !.n = Len(block)]

CdfProcessCall ==
    /\ obj = "cdf"
    /\ \E buffer_size \in 1..MaxBlock :
         /\ fed + buffer_size <= MaxSamples
         /\ \E block \in Blocks(buffer_size) :
              CdfProcessed(CdfProcess(cdf, Main(block), Side(block), buffer_size, k), block)
    /\ UNCHANGED <<obj, k, reas, mags, plugin, built, call, plugin2, threads>>

\* cdf.reset()
CdfResetCall ==
    /\ obj = "cdf"
    /\ cdf' = CdfReset(cdf)
    /\ hist_main' = <<>>
    /\ hist_side' = <<>>
    /\ outs' = <<>>
    /\ hops' = <<>>
    /\ last' = [NoCall EXCEPT !.op = "reset"]
    /\ UNCHANGED <<obj, k, reas, fed, mags, plugin, built, call, plugin2, threads>>

\* cdf.setSampleRate(sample_rate); a call with the current rate returns at once
CdfSetSampleRateCall ==
    /\ obj = "cdf"
    /\ \E sample_rate \in Rates :
         /\ cdf' = CdfSetSampleRate(cdf, sample_rate)
         /\ hist_main' = IF sample_rate = cdf.sample_rate_ THEN hist_main ELSE <<>>
         /\ hist_side' = IF sample_rate = cdf.sample_rate_ THEN hist_side ELSE <<>>
         /\ outs' = IF sample_rate = cdf.sample_rate_ THEN outs ELSE <<>>
         /\ hops' = IF sample_rate = cdf.sample_rate_ THEN hops ELSE <<>>
         /\ last' = [NoCall EXCEPT !.op = "setSampleRate", !.rate = sample_rate]
    /\ UNCHANGED <<obj, k, reas, fed, mags, plugin, built, call, plugin2, threads>>

\* reas.process(input_main, input_sidechain, output, buffer_size, k); a k
\* outside [0, 1] can send interpolate past the end of the phase vector
ReasProcessed(r, block, stray) ==
    /\ reas' = r.e
    /\ Processed(r, block)
    /\ last' = [NoCall EXCEPT !.op = "process", !.n = Len(block), !.stray = stray]

ReasProcessCall ==
    /\ obj = "reas"
    /\ \E buffer_size \in 1..MaxBlock :
         /\ fed + buffer_size <= MaxSamples
         /\ \E block \in Blocks(buffer_size),
               stray \in (IF k \in 0..2 THEN {0} ELSE Strays) :
              ReasProcessed(ReasProcess(reas, Main(block), Side(block), buffer_size, k, stray),
                            block, stray)
    /\ UNCHANGED <<obj, k, cdf, mags, plugin, built, call, plugin2, threads>>

\* reas.reset()
ReasResetCall ==
    /\ obj = "reas"
    /\ reas' = ReasReset(reas)
    /\ hist_main' = <<>>
    /\ hist_side' = <<>>
    /\ outs' = <<>>
    /\ hops' = <<>>
    /\ last' = [NoCall EXCEPT !.op = "reset"]
    /\ UNCHANGED <<obj, k, cdf, fed, mags, plugin, built, call, plugin2, threads>>

Next ==
    \/ CdfProcessCall
    \/ CdfResetCall
    \/ CdfSetSampleRateCall
    \/ ReasProcessCall
    \/ ReasResetCall

Spec == Init /\ [][Next]_vars

\* ------------------------------------------- the plugin and its host
\* sample rates the host may announce, in Hz
PluginRates == {80}
\* values the window-size parameter takes, in ms (100 is its default)
PluginWindows == {50, 100}
\* the settings a block is processed with: Full Morph at 0.5; Dry at
\* Extremes at 0 (dry main only) and at 0.75 with the mix fully dry
Settings ==
    { [morphMode |-> 0, morph |-> 2, dryWet |-> 1],
      [morphMode |-> 1, morph |-> 0, dryWet |-> 1],
      [morphMode |-> 1, morph |-> 3, dryWet |-> 0] }

InitPlugin ==
    /\ obj = "plugin"
    /\ k = 0
    /\ cdf = CdfConstruct(CdfConfig)
    /\ reas = ReasConstruct(ReasConfig)
    /\ hist_main = <<>>
    /\ hist_side = <<>>
    /\ outs = <<>>
    /\ fed = 0
    /\ last = NoCall
    /\ mags = NoMags
    /\ hops = <<>>
    /\ call = NoPureCall
    /\ plugin2 = NoPlugin
    /\ threads = NoThreads
    /\ plugin = NoPlugin
    /\ built = NoBuilt

\* the host announces the sample rate
PrepareToPlayCall ==
    /\ \E sampleRate \in PluginRates :
         /\ plugin' = prepareToPlay(plugin, sampleRate)
         /\ last' = [NoCall EXCEPT !.op = "prepareToPlay", !.rate = sampleRate]
    /\ outs' = <<>>
    /\ UNCHANGED <<obj, k, cdf, reas, hist_main, hist_side, fed, mags, hops, built, call, plugin2, threads>>

\* the host or the editor moves the window-size parameter
SetWindowSizeCall ==
    /\ \E windowSize \in PluginWindows \ {plugin.windowSizeParam} :
         plugin' = [plugin EXCEPT !.windowSizeParam = windowSize, !.rebuilt = FALSE]
    /\ last' = [NoCall EXCEPT !.op = "setWindowSize"]
    /\ outs' = <<>>
    /\ UNCHANGED <<obj, k, cdf, reas, hist_main, hist_side, fed, mags, hops, built, call, plugin2, threads>>

\* the host or the editor selects the other algorithm
SetAlgorithmCall ==
    /\ plugin' = [plugin EXCEPT !.algorithmParam = 1 - plugin.algorithmParam,
                                !.rebuilt = FALSE]
    /\ last' = [NoCall EXCEPT !.op = "setAlgorithm"]
    /\ outs' = <<>>
    /\ UNCHANGED <<obj, k, cdf, reas, hist_main, hist_side, fed, mags, hops, built, call, plugin2, threads>>

\* the host restores a saved state
SetStateInformationCall ==
    /\ \E windowSize \in PluginWindows, algorithm \in {0, 1} :
         plugin' = setStateInformation(plugin, windowSize, algorithm)
    /\ last' = [NoCall EXCEPT !.op = "setStateInformation"]
    /\ outs' = <<>>
    /\ UNCHANGED <<obj, k, cdf, reas, hist_main, hist_side, fed, mags, hops, built, call, plugin2, threads>>

\* the host stops playback
ReleaseResourcesCall ==
    /\ plugin.cdfProcessor # Null
    /\ plugin' = releaseResources(plugin)
    /\ last' = [NoCall EXCEPT !.op = "releaseResources"]
    /\ outs' = <<>>
    /\ UNCHANGED <<obj, k, cdf, reas, hist_main, hist_side, fed, mags, hops, built, call, plugin2, threads>>

\* what a processBlock() that returned r = [p, output] leaves
BlockProcessed(r, n) ==
    /\ plugin' = r.p
    /\ outs' = r.output
    /\ fed' = fed + n
    /\ last' = [NoCall EXCEPT !.op = "processBlock", !.n = n]

\* the audio callback, once prepareToPlay has been called
ProcessBlockCall ==
    /\ plugin.cdfProcessor # Null
    /\ \E numSamples \in 1..MaxPluginBlock :
         /\ fed + numSamples <= MaxPluginSamples
         /\ \E block \in Blocks(numSamples), g \in Settings, bypass \in BOOLEAN :
              BlockProcessed(processBlock(plugin, Main(block), Side(block), g, bypass),
                             numSamples)
    /\ UNCHANGED <<obj, k, cdf, reas, hist_main, hist_side, mags, hops, built, call, plugin2, threads>>

NextPlugin ==
    \/ PrepareToPlayCall
    \/ SetWindowSizeCall
    \/ SetAlgorithmCall
    \/ SetStateInformationCall
    \/ ReleaseResourcesCall
    \/ ProcessBlockCall

SpecPlugin == InitPlugin /\ [][NextPlugin]_vars

\* ------------------------------------------------- the constructors
\* Constructor arguments: sample rates in Hz, window durations in ms, hop
\* divisors, and the fourth argument (fft_mult of the CDF engine, fft_padding
\* of the reassignment engine).
ConfigRates == {0, 1000, 44100, 48000}
ConfigWindows == 0..200
ConfigHopDivisors == {2, 4, 8}
ConfigFft == {0, 1, 2}

\* the arguments of a constructor call not made yet
Arguments(sample_rate, window_ms, hop_divisor, fft) ==
    [ done |-> FALSE, engine |-> "none", error |-> FALSE,
      sample_rate |-> sample_rate, window_ms |-> window_ms,
      hop_divisor |-> hop_divisor, fft |-> fft,
      window_len |-> 0, hop_size |-> 0, fft_len |-> 0, hops_per_window |-> 0 ]

InitConfig ==
    /\ obj = "config"
    /\ k = 0
    /\ cdf = CdfConstruct(CdfConfig)
    /\ reas = ReasConstruct(ReasConfig)
    /\ hist_main = <<>>
    /\ hist_side = <<>>
    /\ outs = <<>>
    /\ fed = 0
    /\ last = NoCall
    /\ mags = NoMags
    /\ hops = <<>>
    /\ call = NoPureCall
    /\ plugin2 = NoPlugin
    /\ threads = NoThreads
    /\ plugin = NoPlugin
    /\ built \in { Arguments(sample_rate, window_ms, hop_divisor, fft) :
                     sample_rate \in ConfigRates, window_ms \in ConfigWindows,
                     hop_divisor \in ConfigHopDivisors, fft \in ConfigFft }

\* what RealtimeAudioTransport(...) returns to its caller: the constructor
\* has no throw and no failure return, and hop_divisor hops make a window
CdfConstructed(b, z) ==
    [b EXCEPT !.done = TRUE, !.engine = "cdf",
              !.window_len = z.window_size_, !.hop_size = z.hop_size_,
              !.fft_len = z.fft_size_, !.hops_per_window = b.hop_divisor]

\* what RealtimeReassignmentTransport(...) returns to its caller: no throw
\* and no failure return either; the hop is window_samples / (2 hop_divisor)
ReasConstructed(b, z) ==
    [b EXCEPT !.done = TRUE, !.engine = "reas",
              !.window_len = z.window_samples_, !.hop_size = z.hop_size_,
              !.fft_len = z.window_padded_, !.hops_per_window = 2 * b.hop_divisor]

\* new RealtimeAudioTransport(sample_rate, window_ms, hop_divisor, fft_mult)
CdfConstructCall ==
    /\ obj = "config"
    /\ ~built.done
    /\ built' = CdfConstructed(built, CdfSizes(built.sample_rate, built.window_ms,
                                               built.hop_divisor, built.fft))
    /\ UNCHANGED <<obj, k, cdf, reas, hist_main, hist_side, outs, fed, last, mags, hops, plugin, call, plugin2, threads>>

\* new RealtimeReassignmentTransport(sample_rate, window_ms, hop_divisor,
\* fft_padding)
ReasConstructCall ==
    /\ obj = "config"
    /\ ~built.done
    /\ built' = ReasConstructed(built, ReasSizes(built.sample_rate, built.window_ms,
                                                 built.hop_divisor, built.fft))
    /\ UNCHANGED <<obj, k, cdf, reas, hist_main, hist_side, outs, fed, last, mags, hops, plugin, call, plugin2, threads>>

NextConfig ==
    \/ CdfConstructCall
    \/ ReasConstructCall

SpecConfig == InitConfig /\ [][NextConfig]_vars

\* ------------------------------------ interpolateSpectrum on its own
\* number of bins of the spectra handed to interpolateSpectrum
NumBins == 3

Spectra == [0..NumBins - 1 -> 0..MaxMag]

InitSpectra ==
    /\ obj = "cdf"
    /\ k \in KValues
    /\ cdf = CdfConstruct(CdfConfig)
    /\ reas = ReasConstruct(ReasConfig)
    /\ hist_main = <<>>
    /\ hist_side = <<>>
    /\ outs = <<>>
    /\ fed = 0
    /\ last = NoCall
    /\ hops = <<>>
    /\ call = NoPureCall
    /\ plugin2 = NoPlugin
    /\ threads = NoThreads
    /\ plugin = NoPlugin
    /\ built = NoBuilt
    /\ \E mag_X \in Spectra, mag_Y \in Spectra :
         mags = [NoMags EXCEPT !.mag_X = mag_X, !.mag_Y = mag_Y, !.K2 = k]

\* interpolateSpectrum(mag_X, phase_X, mag_Y, phase_Y, k, mag_out, phase_out)
\* on the drawn magnitudes; main bins at phase 0, sidechain bins at phase 4
InterpolateSpectrumCall ==
    /\ ~mags.done
    /\ LET r == interpolateSpectrum(mags.mag_X, Zeros(NumBins), mags.mag_Y,
                                    [i \in 0..NumBins - 1 |-> 4], mags.K2, NumBins)
       IN  mags' = [mags EXCEPT !.done = TRUE, !.mag_out = r.mag_out,
                                !.phase_out = r.phase_out,
                                !.transport_map =
                                    computeTransportMap(mags.mag_X, mags.mag_Y, NumBins)]
    /\ UNCHANGED <<obj, k, cdf, reas, hist_main, hist_side, outs, fed, last, hops, plugin, built, call, plugin2, threads>>

NextSpectra == InterpolateSpectrumCall

SpecSpectra == InitSpectra /\ [][NextSpectra]_vars

\* ------------------------- group_spectrum and transport_matrix on their own
\* largest number of bins of a spectrum handed to group_spectrum
MaxBins == 4
\* largest number of masses of a list handed to transport_matrix
MaxMasses == 3
\* largest mass of a list, in units of the common denominator
MaxMass == 3

\* a bin: its magnitude (on the real axis) and the offset of its reassigned
\* frequency from the bin frequency
BinKinds == (0..MaxMag) \X {-2, 0, 1}

\* the spectrum of the bins drawn
SpectrumOf(bins, size) ==
    [i \in 0..size - 1 |->
        [ value           |-> <<bins[i + 1][1], 0>>,
          freq            |-> i * FreqRes,
          freq_reassigned |-> i * FreqRes + bins[i + 1][2] ]]

\* the arguments of a group_spectrum call not made yet
GroupArguments(spectrum, size) ==
    [ done |-> FALSE, op |-> "group_spectrum", spectrum |-> spectrum,
      size |-> size, masses |-> <<>>, mass_sum |-> 0 ]

\* the calls on spectra of 1 to MaxBins bins
SpectraDrawn ==
    UNION { { GroupArguments(SpectrumOf(bins, size), size) :
                  bins \in [1..size -> BinKinds] } : size \in 1..MaxBins }

MassLists == UNION { [1..n -> 0..MaxMass] : n \in 1..MaxMasses }

Total(masses) == SumFn(masses, 1, Len(masses))

\* the arguments of a transport_matrix call not made yet
TransportArguments(left, right) ==
    [ done |-> FALSE, op |-> "transport_matrix", left |-> left, right |-> right,
      T |-> <<>> ]

InitMasses ==
    /\ obj = "masses"
    /\ k = 0
    /\ cdf = CdfConstruct(CdfConfig)
    /\ reas = ReasConstruct(ReasConfig)
    /\ hist_main = <<>>
    /\ hist_side = <<>>
    /\ outs = <<>>
    /\ fed = 0
    /\ last = NoCall
    /\ mags = NoMags
    /\ hops = <<>>
    /\ plugin = NoPlugin
    /\ plugin2 = NoPlugin
    /\ threads = NoThreads
    /\ built = NoBuilt
    /\ \/ call \in SpectraDrawn
       \/ \E left \in MassLists, right \in MassLists :
            /\ Total(left) = Total(right)
            /\ Total(left) > 0
            /\ call = TransportArguments(left, right)

\* what group_spectrum returned
Grouped(c, g) == [c EXCEPT !.done = TRUE, !.masses = g.masses, !.mass_sum = g.mass_sum]

\* group_spectrum(spectrum)
GroupSpectrumCall ==
    /\ ~call.done
    /\ call.op = "group_spectrum"
    /\ call' = Grouped(call, group_spectrum(call.spectrum, call.size))
    /\ UNCHANGED <<obj, k, cdf, reas, hist_main, hist_side, outs, fed, last, mags, hops, plugin, built, plugin2, threads>>

\* transport_matrix(left, right)
TransportMatrixCall ==
    /\ ~call.done
    /\ call.op = "transport_matrix"
    /\ call' = [call EXCEPT !.done = TRUE, !.T = transport_matrix(call.left, call.right)]
    /\ UNCHANGED <<obj, k, cdf, reas, hist_main, hist_side, outs, fed, last, mags, hops, plugin, built, plugin2, threads>>

NextMasses ==
    \/ GroupSpectrumCall
    \/ TransportMatrixCall

SpecMasses == InitMasses /\ [][NextMasses]_vars

\* ------------------------------------- two plugin instances in one process
\* processBlock calls of the two instances together
MaxTwoBlocks == 4
\* parameter changes of the two instances together
MaxTwoMoves == 2
\* the block every processBlock is handed: one sample, 1 on the main input
\* and 0 on the sidechain
TwoBlock == << <<1, 0>> >>
\* the settings it is processed with: Full Morph at 0.5, fully wet
TwoSettings == [morphMode |-> 0, morph |-> 2, dryWet |-> 1]

\* lastWindowSize and lastAlgorithm are statics of the function processBlock:
\* one copy for every instance in the process.  The other instance `to`
\* after a processBlock that left the instance `from`.
SharedStatics(from, to) ==
    [to EXCEPT !.statics        = from.statics,
               !.lastWindowSize = from.lastWindowSize,
               !.lastAlgorithm  = from.lastAlgorithm]

\* the instance i
Instance(i) == IF i = 1 THEN plugin ELSE plugin2

\* the values of the parameters an instance rebuilds or re-reports for
Params(p) == [windowSize |-> p.windowSizeParam, algorithm |-> p.algorithmParam]

\* no call yet; seen[i] are the parameters of instance i at its last
\* processBlock, steady tells that the last processBlock found them as its
\* instance's processBlock before had, moves counts the parameter changes
NoTwoCall ==
    [op |-> "construct", instance |-> 0, steady |-> FALSE, seen |-> <<Null, Null>>, moves |-> 0]

InitTwoPlugins ==
    /\ obj = "plugins"
    /\ k = 0
    /\ cdf = CdfConstruct(CdfConfig)
    /\ reas = ReasConstruct(ReasConfig)
    /\ hist_main = <<>>
    /\ hist_side = <<>>
    /\ outs = <<>>
    /\ fed = 0
    /\ last = NoTwoCall
    /\ mags = NoMags
    /\ hops = <<>>
    /\ call = NoPureCall
    /\ plugin = NoPlugin
    /\ plugin2 = NoPlugin
    /\ threads = NoThreads
    /\ built = NoBuilt

\* instance i becomes p; the statics of the other instance are those of p
InstanceBecomes(i, p) ==
    /\ plugin'  = IF i = 1 THEN p ELSE SharedStatics(p, plugin)
    /\ plugin2' = IF i = 2 THEN p ELSE SharedStatics(p, plugin2)

\* the host announces the sample rate to instance i
PrepareInstance ==
    /\ \E i \in {1, 2}, sampleRate \in PluginRates :
         /\ Instance(i).cdfProcessor = Null
         /\ InstanceBecomes(i, prepareToPlay(Instance(i), sampleRate))
         /\ last' = [last EXCEPT !.op = "prepareToPlay", !.instance = i, !.steady = FALSE]
    /\ outs' = <<>>
    /\ UNCHANGED <<obj, k, cdf, reas, hist_main, hist_side, fed, mags, hops, built, call, threads>>

\* the host or the editor moves the window-size parameter of instance i
SetInstanceWindowSize ==
    /\ last.moves < MaxTwoMoves
    /\ \E i \in {1, 2} :
         /\ \E windowSize \in PluginWindows \ {Instance(i).windowSizeParam} :
              InstanceBecomes(i, [Instance(i) EXCEPT !.windowSizeParam = windowSize,
                                                     !.rebuilt = FALSE])
         /\ last' = [last EXCEPT !.op = "setWindowSize", !.instance = i, !.steady = FALSE,
                                  !.moves = @ + 1]
    /\ outs' = <<>>
    /\ UNCHANGED <<obj, k, cdf, reas, hist_main, hist_side, fed, mags, hops, built, call, threads>>

\* the host or the editor selects the other algorithm of instance i
SetInstanceAlgorithm ==
    /\ last.moves < MaxTwoMoves
    /\ \E i \in {1, 2} :
         /\ InstanceBecomes(i, [Instance(i) EXCEPT !.algorithmParam = 1 - @,
                                                    !.rebuilt = FALSE])
         /\ last' = [last EXCEPT !.op = "setAlgorithm", !.instance = i, !.steady = FALSE,
                                  !.moves = @ + 1]
    /\ outs' = <<>>
    /\ UNCHANGED <<obj, k, cdf, reas, hist_main, hist_side, fed, mags, hops, built, call, threads>>

\* what a processBlock() of instance i that returned r = [p, output] leaves
InstanceBlockProcessed(i, r) ==
    /\ InstanceBecomes(i, r.p)
    /\ outs' = r.output
    /\ fed' = fed + 1
    /\ last' = [ op       |-> "processBlock",
                 instance |-> i,
                 steady   |-> last.seen[i] = Params(Instance(i)),
                 seen     |-> [last.seen EXCEPT ![i] = Params(Instance(i))],
                 moves    |-> last.moves ]

\* the audio callback of instance i, once its prepareToPlay has been called,
\* on a block of one sample
ProcessInstanceBlock ==
    /\ fed < MaxTwoBlocks
    /\ \E i \in {1, 2} :
         /\ Instance(i).cdfProcessor # Null
         /\ InstanceBlockProcessed(i, processBlock(Instance(i), Main(TwoBlock),
                                                   Side(TwoBlock), TwoSettings, FALSE))
    /\ UNCHANGED <<obj, k, cdf, reas, hist_main, hist_side, mags, hops, built, call, threads>>

NextTwoPlugins ==
    \/ PrepareInstance
    \/ SetInstanceWindowSize
    \/ SetInstanceAlgorithm
    \/ ProcessInstanceBlock

SpecTwoPlugins == InitTwoPlugins /\ [][NextTwoPlugins]_vars

\* ------------------------------ the editor's timer and the audio callback
\* The message thread runs AudioTransportEditor::timerCallback, the audio
\* thread runs processBlock; neither takes a lock.  Engines are objects
\* numbered from 1, 0 is the empty unique_ptr, `live` holds the engines
\* constructed and not yet destroyed.  A step is one load or store of a
\* unique_ptr, one construction or one destruction.
\* rebuilds of one behaviour
MaxRebuilds == 3

\* the plugin after prepareToPlay: engine 1 in cdfProcessor, engine 2 in
\* reassignmentProcessor, both threads outside their callbacks
ThreadsPrepared ==
    [ running               |-> TRUE,
      algorithmParam        |-> 0,
      needsProcessorRebuild |-> FALSE,
      cdfProcessor          |-> 1,
      reassignmentProcessor |-> 2,
      live                  |-> {1, 2},
      made                  |-> 2,
      rebuilds              |-> 0,
      audio                 |-> "idle",
      fresh                 |-> 0,
      old                   |-> 0,
      ui                    |-> "idle",
      held                  |-> 0,
      latencySamples        |-> 0,
      dangling              |-> FALSE ]

InitThreads ==
    /\ obj = "threads"
    /\ k = 0
    /\ cdf = CdfConstruct(CdfConfig)
    /\ reas = ReasConstruct(ReasConfig)
    /\ hist_main = <<>>
    /\ hist_side = <<>>
    /\ outs = <<>>
    /\ fed = 0
    /\ last = NoCall
    /\ mags = NoMags
    /\ hops = <<>>
    /\ call = NoPureCall
    /\ plugin = NoPlugin
    /\ plugin2 = NoPlugin
    /\ threads = ThreadsPrepared
    /\ built = NoBuilt

\* the rest of the state, which no thread step touches
ThreadsOnly ==
    UNCHANGED <<obj, k, cdf, reas, hist_main, hist_side, outs, fed, last, mags, hops, plugin, built, call, plugin2>>

\* the window-size parameter moves: the next processBlock finds it changed
WindowSizeMoved ==
    /\ threads.rebuilds < MaxRebuilds
    /\ ~threads.needsProcessorRebuild
    /\ threads' = [threads EXCEPT !.needsProcessorRebuild = TRUE, !.rebuilds = @ + 1]
    /\ ThreadsOnly

\* the algorithm parameter moves
AlgorithmMoved ==
    /\ threads' = [threads EXCEPT !.algorithmParam = 1 - @]
    /\ ThreadsOnly

\* audio thread, processBlock: if (needsProcessorRebuild) rebuildProcessor(),
\* up to std::make_unique<RealtimeAudioTransport>(...)
AudioMakeCdf ==
    /\ threads.audio = "idle"
    /\ threads.needsProcessorRebuild
    /\ threads' = [threads EXCEPT !.audio = "cdf made",
                                  !.fresh = threads.made + 1,
                                  !.made  = threads.made + 1,
                                  !.live  = @ \cup {threads.made + 1}]
    /\ ThreadsOnly

\* cdfProcessor = ...: the move assignment stores the new engine
AudioStoreCdf ==
    /\ threads.audio = "cdf made"
    /\ threads' = [threads EXCEPT !.audio = "cdf stored",
                                  !.old = threads.cdfProcessor,
                                  !.cdfProcessor = threads.fresh]
    /\ ThreadsOnly

\* ... and then destroys the engine it held
AudioDeleteCdf ==
    /\ threads.audio = "cdf stored"
    /\ threads' = [threads EXCEPT !.audio = "cdf deleted", !.live = @ \ {threads.old}]
    /\ ThreadsOnly

\* std::make_unique<RealtimeReassignmentTransport>(...)
AudioMakeReas ==
    /\ threads.audio = "cdf deleted"
    /\ threads' = [threads EXCEPT !.audio = "reas made",
                                  !.fresh = threads.made + 1,
                                  !.made  = threads.made + 1,
                                  !.live  = @ \cup {threads.made + 1}]
    /\ ThreadsOnly

\* reassignmentProcessor = ...: the move assignment stores the new engine
AudioStoreReas ==
    /\ threads.audio = "reas made"
    /\ threads' = [threads EXCEPT !.audio = "reas stored",
                                  !.old = threads.reassignmentProcessor,
                                  !.reassignmentProcessor = threads.fresh]
    /\ ThreadsOnly

\* ... and then destroys the engine it held; needsProcessorRebuild = false,
\* and the rest of rebuildProcessor and processBlock on the audio thread's
\* own engines
AudioDeleteReas ==
    /\ threads.audio = "reas stored"
    /\ threads' = [threads EXCEPT !.audio = "idle", !.live = @ \ {threads.old},
                                  !.needsProcessorRebuild = FALSE]
    /\ ThreadsOnly

\* the engine getLatencySamples() selects: algorithmIndex == 0 &&
\* cdfProcessor, else algorithmIndex == 1 && reassignmentProcessor, else none
Selected(t) ==
    IF t.algorithmParam = 0 /\ t.cdfProcessor # 0 THEN t.cdfProcessor
    ELSE IF t.algorithmParam = 1 /\ t.reassignmentProcessor # 0 THEN t.reassignmentProcessor
    ELSE 0

\* message thread, timerCallback: audioProcessor.getLatencySamples() up to
\* the load of the engine pointer it is about to call through
UiLoadEngine ==
    /\ threads.ui = "idle"
    /\ threads' = [threads EXCEPT !.ui   = IF Selected(threads) = 0 THEN "idle" ELSE "loaded",
                                  !.held = Selected(threads),
                                  !.latencySamples = IF Selected(threads) = 0 THEN 0 ELSE @]
    /\ ThreadsOnly

\* ->getLatencySamples() reads the members of the engine loaded; the rest of
\* timerCallback shows the value.  dangling: the engine had been destroyed.
UiCallEngine ==
    /\ threads.ui = "loaded"
    /\ threads' = [threads EXCEPT !.ui = "idle",
                                  !.latencySamples = threads.held,
                                  !.dangling = threads.held \notin threads.live]
    /\ ThreadsOnly

NextThreads ==
    \/ WindowSizeMoved
    \/ AlgorithmMoved
    \/ AudioMakeCdf
    \/ AudioStoreCdf
    \/ AudioDeleteCdf
    \/ AudioMakeReas
    \/ AudioStoreReas
    \/ AudioDeleteReas
    \/ UiLoadEngine
    \/ UiCallEngine

SpecThreads == InitThreads /\ [][NextThreads]_vars

\* ------------------------------------------------- interpolate on its own
\* number of bins of the two spectra handed to interpolate
InterpolateBins == 3

\* the bins drawn: magnitude 0 or 1, reassigned frequency below or above the
\* bin frequency
SeedBinKinds == {0, 1} \X {-2, 1}

\* the spectra of InterpolateBins bins that are not silent
SpectraHeard ==
    { SpectrumOf(bins, InterpolateBins) : bins \in
          { b \in [1..InterpolateBins -> SeedBinKinds] :
                \E i \in 1..InterpolateBins : b[i][1] > 0 } }

\* the arguments of an interpolate call not made yet, on a zero phase vector
InterpolateArguments(left, right, K2, stray) ==
    [ done |-> FALSE, op |-> "interpolate", left |-> left, right |-> right,
      size |-> InterpolateBins, phases |-> Zeros(InterpolateBins), K2 |-> K2,
      stray |-> stray, spectrum |-> <<>>, seed_bins |-> {} ]

InitInterpolate ==
    /\ obj = "interpolate"
    /\ k = 0
    /\ cdf = CdfConstruct(CdfConfig)
    /\ reas = ReasConstruct(ReasConfig)
    /\ hist_main = <<>>
    /\ hist_side = <<>>
    /\ outs = <<>>
    /\ fed = 0
    /\ last = NoCall
    /\ mags = NoMags
    /\ hops = <<>>
    /\ plugin = NoPlugin
    /\ plugin2 = NoPlugin
    /\ threads = NoThreads
    /\ built = NoBuilt
    /\ \E left \in SpectraHeard, right \in SpectraHeard, K2 \in KValues, stray \in Strays :
           call = InterpolateArguments(left, right, K2, stray)

\* what interpolate returned and left in phases, and the indices into phases
\* it computed
InterpolateDone(c, r, seed_bins) ==
    [c EXCEPT !.done = TRUE, !.spectrum = r.spectrum, !.phases = r.phases,
              !.seed_bins = seed_bins]

\* interpolate(left, right, phases, window_size, k) as processHop calls it
InterpolateCall ==
    /\ ~call.done
    /\ call.op = "interpolate"
    /\ call' = InterpolateDone(call,
                    interpolate(call.left, call.right, call.phases, call.size, call.K2,
                                [sample_rate   |-> reas.sample_rate_,
                                 window_ms     |-> reas.window_size_,
                                 window_padded |-> reas.window_padded_],
                                call.stray),
                    SeedBins(call.left, call.right, call.size, call.K2))
    /\ UNCHANGED <<obj, k, cdf, reas, hist_main, hist_side, outs, fed, last, mags, hops, plugin, built, plugin2, threads>>

NextInterpolate == InterpolateCall

SpecInterpolate == InitInterpolate /\ [][NextInterpolate]_vars

\* ---------------------------------------------------------------- claims
Silent(h) == \A i \in 1..Len(h) : h[i] = 0
Drop(h, n) == [i \in 1..Len(h) - Min(n, Len(h)) |-> h[i + Min(n, Len(h))]]
Clamp(K2) == Max(0, Min(K2, 2))

\* C1: block-size independence of the CDF engine.  However the samples fed
\* since the reset were split into process() calls, the outputs and the
\* engine are those of one process() call on the whole stream from the
\* all-zero engine.
CdfBlockSizeIndependence ==
    obj = "cdf" =>
        LET r == CdfProcess(CdfWithSizes(cdf.sample_rate_, cdf), hist_main, hist_side,
                            Len(hist_main), k)
        IN  r.output = outs /\ r.e = cdf

\* a stream that crossed a hop boundary, fed in more than one call, with
\* audible output
CdfSplitStreamReached ==
    /\ obj = "cdf"
    /\ last.op = "process"
    /\ last.n < Len(hist_main)
    /\ Len(hist_main) >= 3
    /\ ~Silent(outs)

\* C2: block-size independence of the reassignment engine for k in [0, 1].
\* However the samples fed since the reset were split into process() calls,
\* the outputs after the first L are those of one process() call on the whole
\* stream.
ReasBlockSizeIndependence ==
    (obj = "reas" /\ k \in 0..2) =>
        LET L == ReasGetLatencySamples(reas)
            r == ReasProcess(ReasConstruct(ReasConfig), hist_main, hist_side,
                             Len(hist_main), k, 0)
        IN  Drop(outs, L) = Drop(r.output, L)

\* C3: initial latency silence.  The first L = getLatencySamples() outputs
\* after construction or reset are zero, in both engines, for k in [0, 1].
InitialLatencySilence ==
    LET L == IF obj = "cdf" THEN CdfGetLatencySamples(cdf) ELSE ReasGetLatencySamples(reas)
    IN  k \in 0..2 => \A i \in 1..Len(outs) : i <= L => outs[i] = 0

\* C4: reported latency.  getLatencySamples() is window_len / 2 for the CDF
\* engine (2205 for 44100 Hz, 100 ms, hop_divisor 4, fft multiplier 2) and
\* (2 * hop_divisor - 1) * hop_size for the reassignment engine, in every
\* state, so it never changes between calls.
ReportedLatency ==
    /\ CdfGetLatencySamples(CdfSizes(44100, 100, 4, 2)) = 2205
    /\ obj = "cdf" =>
           CdfGetLatencySamples(cdf)
               = ((CdfConfig.window_ms * CdfConfig.sample_rate) \div 1000) \div 2
    /\ obj = "reas" =>
           ReasGetLatencySamples(reas)
               = (2 * ReasConfig.hop_divisor - 1)
                 * (RoundDiv(ReasConfig.window_ms * ReasConfig.sample_rate, 1000)
                    \div (2 * ReasConfig.hop_divisor))

\* process() calls followed by a reset()
LatencyAfterCallsReached ==
    /\ obj = "cdf"
    /\ last.op = "reset"
    /\ fed >= 3
    /\ CdfGetLatencySamples(cdf) = 4

\* C5: setSampleRate(sr) with sr different from the current rate leaves the
\* CDF engine as a fresh construction with (sr, the original window_ms,
\* hop_divisor and fft multiplier) would.
SetSampleRateIsConstruction ==
    [][ (last'.op = "setSampleRate" /\ last'.rate # cdf.sample_rate_) =>
            cdf' = CdfNew(last'.rate, CdfConfig.window_ms, CdfConfig.hop_divisor,
                          CdfConfig.fft_mult) ]_vars

\* C6: reset() leaves every input accumulator, the overlap-add buffer, the
\* phase vector and all cursors and counters zero, which is the state just
\* after construction; a second reset() changes nothing.
ResetIsConstruction ==
    last.op = "reset" =>
        /\ obj = "cdf" =>
               /\ cdf = CdfWithSizes(cdf.sample_rate_, cdf)
               /\ cdf.sample_rate_ = CdfConfig.sample_rate => cdf = CdfConstruct(CdfConfig)
               /\ CdfReset(cdf) = cdf
        /\ obj = "reas" =>
               /\ reas = ReasConstruct(ReasConfig)
               /\ ReasReset(reas) = reas

\* a reset() after a hop has been processed
ResetAfterHopReached ==
    /\ obj = "cdf"
    /\ last.op = "reset"
    /\ fed >= 2
    /\ cdf.sample_rate_ = CdfConfig.sample_rate

\* C7: silence in, silence out.  If every sample fed since construction or
\* reset is zero, every output written since then is zero, for k in [0, 1].
SilenceInSilenceOut ==
    (k \in 0..2 /\ Silent(hist_main) /\ Silent(hist_side)) => Silent(outs)

\* silence fed after a reset that followed other calls
SilenceAfterResetReached ==
    /\ k \in 0..2
    /\ last.op = "process"
    /\ Len(hist_main) >= 2
    /\ fed > Len(hist_main)
    /\ Silent(hist_main) /\ Silent(hist_side)
    /\ Len(outs) = Len(hist_main)

\* C8: k = 0 reproduces main.  interpolateSpectrum with k = 0 gives
\* mag_out[i] = |X[i]| in every bin (mag_out is kept times 4).
KZeroReproducesMain ==
    (mags.done /\ mags.K2 = 0) =>
        \A i \in 0..NumBins - 1 : mags.mag_out[i] = 4 * mags.mag_X[i]

\* k = 0 on two different non-silent spectra
KZeroOnDistinctSpectraReached ==
    /\ mags.done
    /\ mags.K2 = 0
    /\ mags.mag_X[0] > 0
    /\ mags.mag_Y[NumBins - 1] > 0
    /\ mags.mag_X # mags.mag_Y

\* C9: k = 1 reproduces the sidechain.  For non-silent spectra,
\* interpolateSpectrum with k = 1 gives mag_out[j] = |Y[j]| in every bin
\* (mag_out is kept times 4).
KOneReproducesSidechain ==
    (/\ mags.done
     /\ mags.K2 = 2
     /\ SumFn(mags.mag_X, 0, NumBins - 1) > 0
     /\ SumFn(mags.mag_Y, 0, NumBins - 1) > 0) =>
        \A j \in 0..NumBins - 1 : mags.mag_out[j] = 4 * mags.mag_Y[j]

\* C10: process() clamps k to [0, 1].  Every process() call gives the output
\* and the engine that the same call with k clamped gives.
ProcessClampsK ==
    [][ last'.op = "process" =>
            LET n       == last'.n
                from    == Len(hist_main)
                in_main == [i \in 1..n |-> hist_main'[from + i]]
                in_side == [i \in 1..n |-> hist_side'[from + i]]
                out     == [i \in 1..n |-> outs'[Len(outs) + i]]
            IN  /\ obj = "cdf" =>
                       LET r == CdfProcess(cdf, in_main, in_side, n, Clamp(k))
                       IN  cdf' = r.e /\ out = r.output
                /\ obj = "reas" =>
                       LET r == ReasProcess(reas, in_main, in_side, n, Clamp(k), last'.stray)
                       IN  reas' = r.e /\ out = r.output ]_vars

\* the arguments and the output of the process() call a step made
CallMain == [i \in 1..last'.n |-> hist_main'[Len(hist_main) + i]]
CallSide == [i \in 1..last'.n |-> hist_side'[Len(hist_side) + i]]
CallOut  == [i \in 1..last'.n |-> outs'[Len(outs) + i]]

\* the call that returned r left the engine e and the output out
Gives(r, e, out) == r.e = e /\ r.output = out

PluginLatencyTracksEngine ==
    (obj = "plugin" /\ last.op = "processBlock") =>
        /\ plugin.latency = PluginGetLatencySamples(plugin)
        /\ plugin.delayBufferSize = PluginGetLatencySamples(plugin)

\* C13: deferred reconfiguration.  No processBlock runs rebuildProcessor():
\* the callback that detects a window-size change or finds a rebuild pending
\* processes its block with the engines it was entered with.
RebuildIsDeferred ==
    (obj = "plugin" /\ last.op = "processBlock") => ~plugin.rebuilt

\* the configuration is in the documented ranges
Documented(b) ==
    /\ b.sample_rate > 0
    /\ b.window_ms \in 20..200
    /\ b.hop_divisor \in {2, 4, 8}

\* C14: window-length invariant.  For every constructed engine with a window
\* of 20 to 200 ms and hop_divisor 2, 4 or 8, the window length in samples is
\* even and divisible by 2 * hop_divisor, and hop_size times the number of
\* hops per window is the window length.
WindowLengthInvariant ==
    (built.done /\ Documented(built)) =>
        /\ built.window_len % 2 = 0
        /\ built.window_len % (2 * built.hop_divisor) = 0
        /\ built.hop_size * built.hops_per_window = built.window_len

\* an argument or a derived size is not positive; the reassignment engine
\* multiplies the window by 1 + fft_padding
Invalid(b) ==
    \/ b.sample_rate <= 0
    \/ b.window_ms <= 0
    \/ b.hop_divisor <= 0
    \/ (IF b.engine = "cdf" THEN b.fft ELSE 1 + b.fft) <= 0
    \/ b.window_len <= 0
    \/ b.hop_size <= 0
    \/ b.fft_len <= 0

\* C15: invalid configuration is rejected.  A constructor called with a
\* non-positive sample rate, window duration, hop divisor or FFT multiplier,
\* or with arguments that give a non-positive window length, hop size or FFT
\* length, fails with a configuration error.
InvalidConfigurationRejected == (built.done /\ Invalid(built)) => built.error

\* C16: no allocation on the real-time path.  No hop fired inside process(),
\* in either engine, creates or sizes a heap buffer.
NoAllocationInProcess ==
    obj \in {"cdf", "reas"} => \A m \in 1..Len(hops) : hops[m].allocations = 0

\* the output stream at 0-based position p, once it has been delivered
Delivered(p, sample) == p < Len(outs) => outs[p + 1] = sample

\* C18: every synthesized sample of the reassignment engine is delivered
\* exactly once.  The hop_size samples the m-th hop stored are the output at
\* stream positions L + (m-1) * hop_size .. L + m * hop_size - 1, however the
\* stream is split into calls.
HopsDeliveredInOrder ==
    obj = "reas" =>
        \A m \in 1..Len(hops) : \A i \in 0..reas.hop_size_ - 1 :
            Delivered(ReasGetLatencySamples(reas) + (m - 1) * reas.hop_size_ + i,
                      hops[m].hop_output[i])

\* the sample received d samples before the `at`-th of the stream h, zero
\* where the stream had not supplied one
SampleBack(h, at, d) == IF at - d >= 1 THEN h[at - d] ELSE 0

\* the most recent window_len samples of h in arrival order, newest last
MostRecent(h, at, window_len) ==
    [j \in 0..window_len - 1 |-> SampleBack(h, at, window_len - 1 - j)]

\* C19: analysis frame content in the CDF engine.  At every hop the frames
\* handed to the STFT hold the most recent window_len samples of main and of
\* the sidechain in arrival order: frame[j] is the sample received
\* window_len - 1 - j samples before the newest, zero before the stream began.
FrameIsMostRecentWindow ==
    obj = "cdf" =>
        \A m \in 1..Len(hops) :
            /\ hops[m].main_frame = MostRecent(hist_main, hops[m].at, cdf.window_size_)
            /\ hops[m].sidechain_frame = MostRecent(hist_side, hops[m].at, cdf.window_size_)

\* one hop for every hop_size samples of the stream, the m-th fired when
\* sample m * hop_size was accepted
HopsEvery(hop_size) ==
    /\ Len(hops) = Len(hist_main) \div hop_size
    /\ \A m \in 1..Len(hops) : hops[m].at = m * hop_size

\* C20: hop dispatch.  In both engines every process() call consumes exactly
\* buffer_size samples, and after n samples since construction or reset,
\* however split into calls, floor(n / hop_size) hops were fired, the m-th
\* when sample m * hop_size was consumed.
HopDispatch ==
    /\ obj \in {"cdf", "reas"} => Len(outs) = Len(hist_main)
    /\ obj = "cdf" => HopsEvery(cdf.hop_size_)
    /\ obj = "reas" => HopsEvery(reas.hop_size_)

\* two hops of the CDF engine, the first fired in the middle of the stream's
\* second call, whose three samples straddle both hops
HopsAcrossCallsReached ==
    /\ obj = "cdf"
    /\ last.op = "process"
    /\ last.n = 3
    /\ Len(hist_main) = 4
    /\ Len(hops) = 2
    /\ hops[1].at = 2
    /\ cdf.hop_size_ = 2

\* F[j] >= F'[i] for the normalised cumulative sums F of mag_Y and F' of
\* mag_X; a silent spectrum is normalised by eps and has F = 0 everywhere
CdfReaches(mag_Y, j, mag_X, i) ==
    CumSum(mag_Y, j) * Max(CumSum(mag_X, NumBins - 1), 1)
        >= CumSum(mag_X, i) * Max(CumSum(mag_Y, NumBins - 1), 1)

\* the smallest target bin whose cumulative share reaches that of source
\* bin i, the last bin when there is none
SmallestTarget(mag_X, mag_Y, i) ==
    IF \E j \in 0..NumBins - 1 : CdfReaches(mag_Y, j, mag_X, i)
    THEN CHOOSE j \in 0..NumBins - 1 :
             /\ CdfReaches(mag_Y, j, mag_X, i)
             /\ \A h \in 0..j - 1 : ~CdfReaches(mag_Y, h, mag_X, i)
    ELSE NumBins - 1

\* C21: CDF transport map.  computeTransportMap sets T[i] to the smallest
\* target bin j with F_Y[j] >= F_X[i] - eps, N - 1 when there is none; every
\* T[i] lies in 0..N-1 and T is non-decreasing.
TransportMapIsInverseCdf ==
    mags.done =>
        /\ \A i \in 0..NumBins - 1 :
               /\ mags.transport_map[i] = SmallestTarget(mags.mag_X, mags.mag_Y, i)
               /\ mags.transport_map[i] \in 0..NumBins - 1
        /\ \A i \in 0..NumBins - 2 : mags.transport_map[i] <= mags.transport_map[i + 1]

\* a map on two different spectra that takes three different values, its
\* searches ending left of, at and right of the first probe
SpreadingMapReached ==
    /\ mags.done
    /\ mags.transport_map[0] = 0
    /\ mags.transport_map[1] = 1
    /\ mags.transport_map[2] = 2
    /\ mags.mag_X # mags.mag_Y

\* C22: silence short-circuit.  When exactly one of the two spectra handed to
\* the interpolator is silent, the result is the other spectrum bin for bin,
\* times (1 - k) when the sidechain is silent and times k when main is silent
\* (mag_out is kept times 4).
SilenceShortCircuit ==
    (mags.done /\ mags.K2 \in 0..2) =>
        /\ (CumSum(mags.mag_Y, NumBins - 1) = 0 /\ CumSum(mags.mag_X, NumBins - 1) > 0) =>
               \A i \in 0..NumBins - 1 : mags.mag_out[i] = 2 * (2 - mags.K2) * mags.mag_X[i]
        /\ (CumSum(mags.mag_X, NumBins - 1) = 0 /\ CumSum(mags.mag_Y, NumBins - 1) > 0) =>
               \A i \in 0..NumBins - 1 : mags.mag_out[i] = 2 * mags.K2 * mags.mag_Y[i]

\* the mass the plan T sends from left mass a, and the mass it sends to right
\* mass b
SentFrom(T, a) == SumFn([n \in 1..Len(T) |-> IF T[n][1] = a THEN T[n][3] ELSE 0], 1, Len(T))
SentTo(T, b) == SumFn([n \in 1..Len(T) |-> IF T[n][2] = b THEN T[n][3] ELSE 0], 1, Len(T))

\* C23: the greedy matcher returns a transport plan.  For two non-empty mass
\* lists of equal totals, the triples of transport_matrix have indices that
\* never decrease, what is sent from every left mass is that mass, what is
\* sent to every right mass is that mass, and all of it is the common total.
TransportMatrixIsPlan ==
    (call.done /\ call.op = "transport_matrix") =>
        /\ \A n \in 1..Len(call.T) - 1 :
               /\ call.T[n][1] <= call.T[n + 1][1]
               /\ call.T[n][2] <= call.T[n + 1][2]
        /\ \A a \in 1..Len(call.left) : SentFrom(call.T, a) = call.left[a]
        /\ \A b \in 1..Len(call.right) : SentTo(call.T, b) = call.right[b]
        /\ SumFn([n \in 1..Len(call.T) |-> call.T[n][3]], 1, Len(call.T)) = Total(call.left)

\* a plan between lists of several different masses, one left mass being
\* split between two right masses
SplitMassReached ==
    /\ call.done
    /\ call.op = "transport_matrix"
    /\ Len(call.left) = 2
    /\ Len(call.right) = 3
    /\ call.left[1] = 3
    /\ call.right[1] = 1
    /\ call.right[2] = 1
    /\ Len(call.T) = 4

\* C24: positive transported mass.  For two non-empty lists of strictly
\* positive masses with equal totals, every triple of transport_matrix
\* carries a strictly positive mass.
TransportedMassIsPositive ==
    (/\ call.done
     /\ call.op = "transport_matrix"
     /\ \A a \in 1..Len(call.left) : call.left[a] > 0
     /\ \A b \in 1..Len(call.right) : call.right[b] > 0) =>
        \A n \in 1..Len(call.T) : call.T[n][3] > 0

\* C25: masses partition the spectrum.  For a spectrum of N >= 1 bins,
\* group_spectrum returns at least one mass, the first beginning at bin 0,
\* each next one beginning where the one before ends, the last ending at N,
\* none empty, and the weights mass / mass_sum add up to 1.
MassesPartitionSpectrum ==
    (call.done /\ call.op = "group_spectrum") =>
        /\ Len(call.masses) >= 1
        /\ call.masses[1].left_bin = 0
        /\ \A n \in 1..Len(call.masses) - 1 :
               call.masses[n + 1].left_bin = call.masses[n].right_bin
        /\ call.masses[Len(call.masses)].right_bin = call.size
        /\ \A n \in 1..Len(call.masses) : call.masses[n].left_bin < call.masses[n].right_bin
        /\ SumFn([n \in 1..Len(call.masses) |-> call.masses[n].mass], 1, Len(call.masses))
               = call.mass_sum

\* three masses over four bins
ThreeMassesReached ==
    /\ call.done
    /\ call.op = "group_spectrum"
    /\ call.size = 4
    /\ Len(call.masses) = 3
    /\ call.mass_sum > 2

\* C26: first-bin rule of the grouper.  Bin 0 only initialises the sign: no
\* mass returned by group_spectrum has bin 0 in its range [left_bin,
\* right_bin), and the magnitude of bin 0 is counted in no mass.
FirstBinIsDiscarded ==
    (call.done /\ call.op = "group_spectrum") =>
        /\ \A n \in 1..Len(call.masses) : call.masses[n].left_bin > 0
        /\ CAbs(call.spectrum[0].value) > 0 =>
               SumFn([n \in 1..Len(call.masses) |-> call.masses[n].mass], 1, Len(call.masses))
                   = call.mass_sum - CAbs(call.spectrum[0].value)

\* C27: running phase vector.  In each engine every hop on non-silent input
\* stores the phase vector phases_ once, the seeds a hop starts from are the
\* phases the hop before it left, and the vector the engine holds is the one
\* its last hop left.
PhasesWrittenOncePerHop ==
    obj \in {"cdf", "reas"} =>
        /\ \A m \in 1..Len(hops) : ~hops[m].silent => hops[m].phase_writes = 1
        /\ \A m \in 1..Len(hops) - 1 : hops[m + 1].seeds = hops[m].phases
        /\ Len(hops) >= 1 =>
               hops[Len(hops)].phases = (IF obj = "cdf" THEN cdf.phases_ ELSE reas.phases_)

\* the cursors of the CDF engine lie inside their buffers
CdfCursorsInside(e) ==
    /\ 0 <= e.buffer_write_pos_ /\ e.buffer_write_pos_ < e.window_size_
    /\ 0 <= e.buffer_read_pos_ /\ e.buffer_read_pos_ < e.window_size_
    /\ 0 <= e.samples_in_buffer_ /\ e.samples_in_buffer_ < e.hop_size_
    /\ 0 <= e.ola_write_pos_ /\ e.ola_write_pos_ < 2 * e.window_size_

\* the cursors of the reassignment engine lie inside their buffers
ReasCursorsInside(e) ==
    /\ 0 <= e.input_write_pos_ /\ e.input_write_pos_ < e.hop_size_
    /\ 0 <= e.output_read_pos_
    /\ e.output_read_pos_ < ReasGetLatencySamples(e) + e.hop_size_ * 4

\* after any sequence of construction, process(), reset() and
\* setSampleRate() the cursors of the engine lie inside its buffers
CursorsInside ==
    /\ obj = "cdf" => CdfCursorsInside(cdf)
    /\ obj = "reas" => ReasCursorsInside(reas)

\* C28: cursor and index safety.  Every buffer index computed during
\* process() is within the bounds of the buffer it addresses: the indices
\* interpolated_bin at which interpolate, called by the hop, reads and writes
\* the phase vector lie inside the phase vector.
IndicesInBounds ==
    (call.done /\ call.op = "interpolate") =>
        \A b \in call.seed_bins : 0 <= b /\ b < call.size

\* C29: plugin instances are independent.  A processBlock of an instance that
\* finds its window-size and algorithm parameters as the processBlock of the
\* same instance before it had does not rebuild the engines of the instance.
InstancesAreIndependent ==
    (obj = "plugins" /\ last.op = "processBlock" /\ last.steady) =>
        ~Instance(last.instance).rebuilt

\* C30: no use of a destroyed engine across threads.  The timerCallback of
\* the editor, running getLatencySamples() while processBlock() runs on the
\* audio thread, never calls through an engine that rebuildProcessor() has
\* destroyed.
NoDestroyedEngineUsed ==
    obj = "threads" => ~threads.dangling

====
